---- MODULE Spec2Model ----
(***************************************************************************)
(* A model of the content pipeline of the Chunks web app:                  *)
(*   src/src/services/contentGenerator.ts  (parseJSON, getImageForKeywords,*)
(*       generateStoriesFromHistory, generateChunksFromStory, mocks)       *)
(*   src/src/services/llm/openai.ts        (the three transports and       *)
(*       LLMService.sendMessage)                                           *)
(*   src/unnamed/part_000                  (StoriesPage.handleStoryClick)  *)
(*   src/src/components/pages/AddHistoryPage.tsx (handleGenerateStories)   *)
(*   src/src/components/pages/ChatbotPage.tsx    (handleSend, the canned   *)
(*       replies, the timers of the mount effect)                          *)
(*                                                                         *)
(*   src/src/components/pages/SettingsPage.tsx   (the URL list, the      *)
(*       provider form, handleGenerateStories)                             *)
(*                                                                         *)
(* Seven specifications share the variables: Spec (one generation flow and *)
(* its page), ParseSpec (parseJSON on one wrapped payload), ChatSpec       *)
(* (ChatbotPage and its chat requests), CacheSpec (the image resolutions   *)
(* of a session and the cache in front of the lookups), MockSpec (the mock *)
(* generators on one input), ClickSpec (overlapping story clicks on        *)
(* StoriesPage) and FormSpec (the URL list and the provider form).         *)
(*                                                                         *)
(* contentGenerator.ts holds two revisions of the pipeline.  Lines 1-195   *)
(* (called v1 here) build every entity synchronously after parsing; lines  *)
(* 198-429 (v2) resolve one image per record through a Promise.all fan-out.*)
(* Both are modelled; the variable version says which one an invocation  *)
(* runs.  The module ./unsplash (getCachedPhotoUrl, getFallbackImage) is   *)
(* not part of the sources at hand and is modelled from the specification. *)
(*                                                                         *)
(* Texts are sequences of one-character strings.  A JSON object literal is *)
(* one atomic token of the text ("{rec1}", ...): the fence regexes only    *)
(* ever look at back-ticks, the letters of a language tag and newlines, so *)
(* the inside of an object literal never takes part in the stripping.      *)
(***************************************************************************)
EXTENDS Integers, Sequences, FiniteSets, TLC

VARIABLES
    \* ---- one invocation of a generation flow and its calling page
    pc,             \* position of the invocation
    kind,           \* "stories" | "chunks" | "none"
    version,        \* "v1" | "v2": the revision of contentGenerator.ts that runs
    config,         \* the provider identifier of the LLMConfig in use
    story,          \* the Story handed to generateChunksFromStory
    netCalls,       \* provider fetches issued by the current invocation
    fetchResponse,  \* what the provider's fetch came back with
    dispatchResult, \* what llm.generateStories / generateChunks / chat settled with
    parsed,         \* the array parseJSON returned
    slots,          \* the Promise.all input: one promise per parsed record
    flowResult,     \* what the flow settled with
    storedStories,  \* storageService: stories
    storedChunks,   \* storageService: current story and current chunks
    hasStarted,     \* storageService: hasStarted
    pageError,      \* the page's error state
    busy,           \* isGenerating / isGeneratingChunks
    location,       \* the route the page has navigated to
    \* ---- the parseJSON harness
    pIn,            \* the payload and the way it is wrapped
    pOut,           \* parseJSON's results for the wrapped and the bare payload
    \* ---- ChatbotPage
    chatPhase,      \* "unmounted" | "motivation" | "greeting" | "ready": the timers of the mount effect
    chatStory,      \* the story state (NoStory is null)
    messages,       \* the messages state
    input,          \* the input state
    isTyping,       \* the isTyping state
    showMotivation, \* the showMotivation state
    sendLen,        \* messages.length as the running handleSend closure sees it
    sendInput,      \* input as the running handleSend closure sees it
    \* ---- the image cache of ./unsplash
    photoCache,     \* the keyword strings whose looked-up URL is cached
    lookupCalls,    \* external lookups issued, per keyword string
    resolutions,    \* the calls of getImageForKeywords of the session
    \* ---- the generateMockChunks harness
    mIn,            \* two stories and the revision that runs
    mOut,           \* generateMockChunks' results for the two stories
    \* ---- StoriesPage with several chunk generations out
    inflight,       \* the handleStoryClick invocations suspended at their await
    selectedStory,  \* the selectedStory state (NoStory is null)
    \* ---- the forms of SettingsPage and AddHistoryPage
    urls,           \* the urls state
    browsingHistory,\* storageService: browsing history
    urlInput,       \* the urlInput state
    formProvider,   \* the provider state
    apiKey,         \* the apiKey state
    apiConfig,      \* storageService: the LLMConfig (None when not stored)
    lastCall        \* the form handler that ran last: "add", "save", "generate",
                    \* or "edit" for the others

flowVars == <<pc, kind, version, config, story, netCalls, fetchResponse,
              dispatchResult, parsed, slots, flowResult>>
pageVars == <<storedStories, storedChunks, hasStarted, pageError, busy, location>>
parseVars == <<pIn, pOut>>
chatVars == <<chatPhase, chatStory, messages, input, isTyping, showMotivation,
              sendLen, sendInput>>
cacheVars == <<photoCache, lookupCalls, resolutions>>
\* What a generation flow and its page never touch.
mockVars == <<mIn, mOut>>
clickVars == <<inflight, selectedStory>>
formVars == <<urls, browsingHistory, urlInput, formProvider, apiKey, apiConfig,
              lastCall>>
moreVars == <<mockVars, clickVars, formVars>>

sideVars == <<parseVars, chatVars, cacheVars, moreVars>>
vars == <<flowVars, pageVars, parseVars, chatVars, cacheVars, moreVars>>

----------------------------------------------------------------------------
(* Bounds *)

\* The longest array of records a provider returns.
MaxRecords == 6

----------------------------------------------------------------------------
(* JavaScript values *)

\* An optional field: <<>> is undefined, <<v>> is the value v.
None == <<>>
Some(v) == <<v>>

\* x || y on optional strings: undefined and "" are falsy.
Falsy(o) == o = None \/ o = Some("")
JsOr(a, b) == IF Falsy(a) THEN b ELSE a

\* ${o} in a template literal.
Interp(o) == IF o = None THEN "undefined" ELSE o[1]

NoErr == [type |-> "", message |-> ""]
Err(t, m) == [type |-> t, message |-> m]

----------------------------------------------------------------------------
(* Texts *)

NL == "\n"
WS == {" ", NL}
\* The back-tick (U+0060), which a TLA+ string cannot hold, is written BT.
BT == "BT"
Ticks == <<BT, BT, BT>>

RECURSIVE TrimStart(_)
TrimStart(s) == IF s # <<>> /\ Head(s) \in WS THEN TrimStart(Tail(s)) ELSE s

RECURSIVE TrimEnd(_)
TrimEnd(s) ==
    IF s # <<>> /\ s[Len(s)] \in WS THEN TrimEnd(SubSeq(s, 1, Len(s) - 1)) ELSE s

\* String.prototype.trim
Trim(s) == TrimEnd(TrimStart(s))

StartsWith(s, p) == Len(s) >= Len(p) /\ SubSeq(s, 1, Len(p)) = p
EndsWith(s, p) == Len(s) >= Len(p) /\ SubSeq(s, Len(s) - Len(p) + 1, Len(s)) = p
Drop(s, n) == SubSeq(s, n + 1, Len(s))
DropEnd(s, n) == SubSeq(s, 1, Len(s) - n)

----------------------------------------------------------------------------
(* The records a provider can emit *)

RecTok(i) == "{rec" \o ToString(i) \o "}"
NoTitleTok == "{notitle}"

\* Record i of a provider's array.  Every third record carries no
\* imageKeywords; the others share two keyword strings.
Rec(i) ==
    [id |-> Some(i),
     title |-> Some("T" \o ToString(i)),
     description |-> Some("D" \o ToString(i)),
     content |-> Some("D" \o ToString(i)),
     imageKeywords |-> IF i % 3 = 0 THEN None ELSE Some("kw" \o ToString(i % 2)),
     image |-> None,
     relatedUrls |-> IF i % 2 = 0 THEN None ELSE Some(<<"https://a.example.com/x">>)]

\* A record without the required title, description and content.
NoTitleRec ==
    [id |-> Some(1), title |-> None, description |-> None, content |-> None,
     imageKeywords |-> Some("kw1"), image |-> None, relatedUrls |-> None]

\* A record that repeats the id of record 1.
DupIdTok == "{dupid}"
DupIdRec ==
    [id |-> Some(1), title |-> Some("Tdup"), description |-> Some("Ddup"),
     content |-> Some("Ddup"), imageKeywords |-> Some("kw1"), image |-> None,
     relatedUrls |-> None]

\* A record without an id.
NoIdTok == "{noid}"
NoIdRec ==
    [id |-> None, title |-> Some("Tnoid"), description |-> Some("Dnoid"),
     content |-> Some("Dnoid"), imageKeywords |-> Some("kw0"), image |-> None,
     relatedUrls |-> None]

\* A record of the older output format: an image search term in image and no
\* imageKeywords.
LegacyTok == "{legacy}"
LegacyRec ==
    [id |-> Some(1), title |-> Some("Tlegacy"), description |-> Some("Dlegacy"),
     content |-> Some("Dlegacy"), imageKeywords |-> None,
     image |-> Some("technology"), relatedUrls |-> None]

SpecialToks == {NoTitleTok, DupIdTok, NoIdTok, LegacyTok}
ObjToks == {RecTok(i) : i \in 1..MaxRecords} \cup SpecialToks

\* The object an object literal decodes to.
ObjOf(tok) ==
    CASE tok = NoTitleTok -> NoTitleRec
      [] tok = DupIdTok -> DupIdRec
      [] tok = NoIdTok -> NoIdRec
      [] tok = LegacyTok -> LegacyRec
      [] OTHER -> Rec(CHOOSE i \in 1..MaxRecords : RecTok(i) = tok)

RECURSIVE CommaJoin(_)
CommaJoin(toks) ==
    IF toks = <<>> THEN <<>>
    ELSE IF Len(toks) = 1 THEN toks
    ELSE <<Head(toks), ",">> \o CommaJoin(Tail(toks))

\* JSON.stringify of an array of objects.
ArrayText(toks) == <<"[">> \o CommaJoin(toks) \o <<"]">>

PrefixArray(n) == [i \in 1..n |-> RecTok(i)]

\* Well-formed JSON payloads: arrays of 0..MaxRecords records, an array whose
\* record lacks the required fields, arrays with a repeated id, with a missing
\* id and with a record of the older format, a bare object, a bare number.
ArrayPayloads ==
    {ArrayText(PrefixArray(n)) : n \in 0..MaxRecords}
    \cup {ArrayText(<<NoTitleTok>>), ArrayText(<<RecTok(1), DupIdTok>>),
          ArrayText(<<RecTok(1), NoIdTok>>), ArrayText(<<LegacyTok, RecTok(3)>>)}
JsonPayloads == ArrayPayloads \cup {<<RecTok(1)>>, <<"1">>}

\* Texts that are no JSON: prose, nothing, an unclosed array.
ProsePayloads == {<<"o", "k">>, <<>>, <<"[", RecTok(1)>>}

Payloads == JsonPayloads \cup ProsePayloads

\* Language tags of a fenced block: none, json, js, JSON.
JsonTag == <<"j", "s", "o", "n">>
Tags == {<<>>, JsonTag, <<"j", "s">>, <<"J", "S", "O", "N">>}

\* A payload in a fenced block, with or without the line breaks.
Fence(tag, nl, text) ==
    Ticks \o tag \o (IF nl THEN <<NL>> ELSE <<>>) \o text
          \o (IF nl THEN <<NL>> ELSE <<>>) \o Ticks

\* A way of wrapping a payload: not fenced, or fenced with a tag; padded with
\* surrounding white space or not.
Wrappers ==
    [fenced : {FALSE}, tag : {<<>>}, nl : {FALSE}, pad : BOOLEAN]
    \cup [fenced : {TRUE}, tag : Tags, nl : BOOLEAN, pad : BOOLEAN]

Wrap(w, text) ==
    LET inner == IF w.fenced THEN Fence(w.tag, w.nl, text) ELSE text
    IN  IF w.pad THEN <<" ">> \o inner \o <<NL>> ELSE inner

----------------------------------------------------------------------------
(* parseJSON: contentGenerator.ts 203-212 (and, identically, 12-22) *)

\* JSON values: an array of objects, an object, a number.
JsonValue(t, items) == [t |-> t, items |-> items]
NoValue == JsonValue("none", <<>>)

IsNotWS(c) == c \notin WS

\* JSON.parse on the texts of this model: white space may surround every
\* token; a value is an object literal, the number 1 or an array of object
\* literals.  Anything else raises a SyntaxError.
JSONparse(text) ==
    LET t == Trim(text)
        inner == SelectSeq(SubSeq(t, 2, Len(t) - 1), IsNotWS)
        items == [i \in 1..((Len(inner) + 1) \div 2) |-> inner[2 * i - 1]]
        wellFormedArray ==
            /\ Len(t) >= 2 /\ t[1] = "[" /\ t[Len(t)] = "]"
            /\ \/ inner = <<>>
               \/ /\ Len(inner) % 2 = 1
                  /\ \A i \in 1..Len(inner) :
                        IF i % 2 = 1 THEN inner[i] \in ObjToks ELSE inner[i] = ","
    IN  IF Len(t) = 1 /\ t[1] \in ObjToks
          THEN [ok |-> TRUE, val |-> JsonValue("object", t), err |-> NoErr]
        ELSE IF t = <<"1">>
          THEN [ok |-> TRUE, val |-> JsonValue("number", t), err |-> NoErr]
        ELSE IF wellFormedArray
          THEN [ok |-> TRUE,
                val |-> JsonValue("array", IF inner = <<>> THEN <<>> ELSE items),
                err |-> NoErr]
        ELSE [ok |-> FALSE, val |-> NoValue,
              err |-> Err("SyntaxError", "Unexpected token")]

\* the opening regex without its (?:json)? group
StripOpenFenceNoTag(s) ==
    LET a == Drop(s, 3)
    IN  IF a # <<>> /\ Head(a) = NL THEN Tail(a) ELSE a

\* cleaned.replace(/^BT BT BT(?:json)?\n?/, ''), applied to a text that
\* starts with three back-ticks
StripOpenFence(s) ==
    LET a == Drop(s, 3)
        b == IF StartsWith(a, JsonTag) THEN Drop(a, 4) ELSE a
    IN  IF b # <<>> /\ Head(b) = NL THEN Tail(b) ELSE b

\* .replace(/\n?BT BT BT$/, '')
StripCloseFence(s) ==
    IF EndsWith(s, Ticks)
      THEN LET a == DropEnd(s, 3)
           IN  IF a # <<>> /\ a[Len(a)] = NL THEN DropEnd(a, 1) ELSE a
      ELSE s

\* The text handed to JSON.parse.
cleanResponse(response) ==
    LET cleaned == Trim(response)
    IN  IF StartsWith(cleaned, Ticks)
          THEN StripCloseFence(StripOpenFence(cleaned))
          ELSE cleaned

parseJSON(response) == JSONparse(cleanResponse(response))

----------------------------------------------------------------------------
(* The provider gateway and its transports: services/llm/openai.ts *)

Providers == {"openai", "anthropic", "gemini"}
\* The configurations a page can hold: the three providers and one
\* identifier outside the closed set.
Configs == Providers \cup {"deepseek"}

\* What one fetch can come back with:
\*   net_fail         fetch itself rejects
\*   ok_text          a success response carrying one completion
\*   ok_empty         a success response carrying zero completions
\*   err_msg          a non-success response whose body has error.message
\*   err_nomsg        a non-success response whose body has no error field
\*   err_undecodable  a non-success response whose body is no JSON
HttpOutcomes ==
    {"net_fail", "ok_text", "ok_empty", "err_msg", "err_nomsg", "err_undecodable"}

ProviderMessage == "quota exceeded"
StatusText == "Too Many Requests"

\* A response of the provider: the outcome of the fetch and, in a success
\* response, the texts of its completion candidates.
Response(outcome, candidates) == [outcome |-> outcome, candidates |-> candidates]
NoResponse == Response("none", <<>>)

Settled(text) == [ok |-> TRUE, text |-> text, err |-> NoErr]
Rejected(e) == [ok |-> FALSE, text |-> <<>>, err |-> e]
NotDispatched == [ok |-> FALSE, text |-> <<>>, err |-> NoErr]

\* The part the three transports share: fetch, then the !response.ok branch.
\* label is the prefix of the thrown message; onEmpty what a success response
\* without completions ends in.  A success response with completions gives
\* the text of the first one.
Transport(label, onEmpty, outcome, candidates) ==
    CASE outcome = "net_fail" -> Rejected(Err("TypeError", "Failed to fetch"))
      [] outcome = "err_msg" -> Rejected(Err("Error", label \o ProviderMessage))
      [] outcome = "err_nomsg" -> Rejected(Err("Error", label \o StatusText))
      [] outcome = "err_undecodable" ->
            Rejected(Err("SyntaxError", "Unexpected token in JSON"))
      [] outcome = "ok_empty" -> Rejected(onEmpty)
      [] OTHER -> Settled(Head(candidates))

ReadOfUndefined == Err("TypeError", "Cannot read properties of undefined")

\* data.choices[0].message.content
sendToOpenAI(outcome, candidates) ==
    Transport("OpenAI API error: ", ReadOfUndefined, outcome, candidates)

\* the candidates check, then data.candidates[0].content.parts[0].text
sendToGemini(outcome, candidates) ==
    Transport("Gemini API error: ",
              Err("Error", "Gemini API returned no response candidates"),
              outcome, candidates)

\* data.content[0].text
sendToAnthropic(outcome, candidates) ==
    Transport("Anthropic API error: ", ReadOfUndefined, outcome, candidates)

\* a transport that fetches once more after a failure
FetchesAgainOnFailure(result, calls) == ~result.ok /\ calls < 2

\* The transports hold one fetch each and no loop around it (27, 75, 137), and
\* sendMessage returns what its one transport settles with (264-285): whatever
\* the fetch came back with, no further fetch follows.
FetchesAgain(result, calls) == FALSE

\* sendMessage's switch with a default that falls through to a transport
IssuesFetchAlways(provider) == TRUE

\* LLMService.sendMessage: whether the switch reaches a transport (and so a
\* fetch) for this provider.
IssuesFetch(provider) == provider \in Providers

\* LLMService.sendMessage's default branch.
UnknownProvider(provider) == Err("Error", "Unknown provider: " \o provider)

\* What the transport sendMessage selected settles with.
sendMessage(provider, outcome, candidates) ==
    CASE provider = "openai" -> sendToOpenAI(outcome, candidates)
      [] provider = "anthropic" -> sendToAnthropic(outcome, candidates)
      [] provider = "gemini" -> sendToGemini(outcome, candidates)
      [] OTHER -> Rejected(UnknownProvider(provider))

----------------------------------------------------------------------------
(* Images *)

\* getUnsplashImage (contentGenerator.ts 5-9): the source.unsplash.com URL of
\* a keyword and an index.  A URL is the sequence of its pieces.
getUnsplashImage(keyword, index) ==
    <<"https://source.unsplash.com/800x600/?", "encodeURIComponent:",
      Interp(keyword), "&sig=", Interp(keyword), "-", ToString(index)>>

\* ./unsplash, getFallbackImage: a fallback URL derived from the keywords
\* alone; it never fails.
getFallbackImage(keywords) == <<"fallback://", Interp(keywords)>>

\* ./unsplash, getCachedPhotoUrl: the URL a successful lookup resolves with.
ResolvedPhotoUrl(keywords) == <<"https://images.unsplash.com/", Interp(keywords)>>

\* The outcomes of one external lookup.
Lookups == {"resolved", "rejected"}

Fulfilled(url) == [ok |-> TRUE, url |-> url]
RejectedImage == [ok |-> FALSE, url |-> <<>>]

\* getImageForKeywords without its try/catch
getImageForKeywordsNoCatch(keywords, lookup) ==
    IF lookup = "resolved" THEN Fulfilled(ResolvedPhotoUrl(keywords))
    ELSE RejectedImage

\* getImageForKeywords whose catch returns an empty string
getImageForKeywordsEmpty(keywords, lookup) ==
    IF lookup = "resolved" THEN Fulfilled(ResolvedPhotoUrl(keywords))
    ELSE Fulfilled(<<>>)

\* getImageForKeywords whose catch asks for the fallback of no keywords
getImageForKeywordsBlindFallback(keywords, lookup) ==
    IF lookup = "resolved" THEN Fulfilled(ResolvedPhotoUrl(keywords))
    ELSE Fulfilled(getFallbackImage(None))

\* getImageForKeywords (contentGenerator.ts 217-224): what the promise it
\* returns settles with, given how the external lookup ends.
getImageForKeywords(keywords, lookup) ==
    IF lookup = "resolved" THEN Fulfilled(ResolvedPhotoUrl(keywords))
    ELSE Fulfilled(getFallbackImage(keywords))

----------------------------------------------------------------------------
(* Entities *)

\* item.relatedUrls || []
UrlsOrEmpty(o) == IF o = None THEN <<>> ELSE o[1]

NoStory ==
    [id |-> None, title |-> None, description |-> None, image |-> <<>>,
     imageKeywords |-> None, relatedUrls |-> <<>>]

\* contentGenerator.ts 246: the keyword string of a story record
StoryKeywords(item) == JsOr(JsOr(item.imageKeywords, item.image), item.title)

\* a chunk that falls back on its own title
ChunkKeywordsOwnTitle(item, s) ==
    JsOr(JsOr(item.imageKeywords, item.image), item.title)

\* contentGenerator.ts 293: the keyword string of a chunk record
ChunkKeywords(item, s) ==
    JsOr(JsOr(JsOr(item.imageKeywords, item.image), s.imageKeywords), s.title)

\* a story that drops the record's relatedUrls
StoryV2NoUrls(item, imageUrl) ==
    [id |-> item.id, title |-> item.title, description |-> item.description,
     image |-> imageUrl, imageKeywords |-> StoryKeywords(item),
     relatedUrls |-> <<>>]

\* contentGenerator.ts 249-257
StoryV2(item, imageUrl) ==
    [id |-> item.id, title |-> item.title, description |-> item.description,
     image |-> imageUrl, imageKeywords |-> StoryKeywords(item),
     relatedUrls |-> UrlsOrEmpty(item.relatedUrls)]

\* contentGenerator.ts 296-302
ChunkV2(item, s, imageUrl) ==
    [id |-> item.id, title |-> item.title, content |-> item.content,
     image |-> imageUrl, imageKeywords |-> ChunkKeywords(item, s)]

\* contentGenerator.ts 44-51
StoryV1(item, index) ==
    [id |-> item.id, title |-> item.title, description |-> item.description,
     image |-> getUnsplashImage(item.image, index), imageKeywords |-> None,
     relatedUrls |-> UrlsOrEmpty(item.relatedUrls)]

\* a chunk that takes the record's own image field
ChunkV1OwnImage(item, s) ==
    [id |-> item.id, title |-> item.title, content |-> item.content,
     image |-> IF item.image = None THEN <<>> ELSE <<item.image[1]>>,
     imageKeywords |-> None]

\* contentGenerator.ts 82-87: every chunk takes the story's image
ChunkV1(item, s) ==
    [id |-> item.id, title |-> item.title, content |-> item.content,
     image |-> s.image, imageKeywords |-> None]

\* The synchronous parsed.map of revision v1 (44-51 and 82-87).
MapV1(k, items, s) ==
    [i \in 1..Len(items) |->
        IF k = "stories" THEN StoryV1(items[i], i - 1) ELSE ChunkV1(items[i], s)]

\* The entity the async callback of revision v2 returns once its image is there.
EntityV2(k, item, s, imageUrl) ==
    IF k = "stories" THEN StoryV2(item, imageUrl) ELSE ChunkV2(item, s, imageUrl)

KeywordsV2(k, item, s) ==
    IF k = "stories" THEN StoryKeywords(item) ELSE ChunkKeywords(item, s)

----------------------------------------------------------------------------
(* Mock content: contentGenerator.ts 130-195 (v1) and 348-429 (v2) *)

MockTitles == <<"The Future of AI", "Web Development Trends", "Design Systems">>
MockTitlesV1 == <<"AI Revolution", "Web Development Trends", "Design Systems">>
MockImages ==
    <<<<"https://images.unsplash.com/photo-1677442136019-21780ecad995?w=800">>,
      <<"https://images.unsplash.com/photo-1461749280684-dccba630e2f6?w=800">>,
      <<"https://images.unsplash.com/photo-1558655146-9f40138edfeb?w=800">>>>
MockKeywords ==
    <<"artificial intelligence robot futuristic",
      "coding programming web development", "design ui ux interface">>
MockUrls ==
    <<<<"https://openai.com", "https://anthropic.com">>,
      <<"https://react.dev", "https://vitejs.dev">>,
      <<"https://tailwindcss.com", "https://ui.shadcn.com">>>>

generateMockStories(ver) ==
    [i \in 1..3 |->
        [id |-> Some(i),
         title |-> Some(IF ver = "v1" THEN MockTitlesV1[i] ELSE MockTitles[i]),
         description |-> Some("mock description"),
         image |-> MockImages[i],
         imageKeywords |-> IF ver = "v1" THEN None ELSE Some(MockKeywords[i]),
         relatedUrls |-> MockUrls[i]]]

chunkKeywords ==
    <<"abstract concept idea light bulb", "vintage history timeline old",
      "professional expert business meeting",
      "everyday practical real world application",
      "technical detail microscope close up">>
MockChunkTitles ==
    <<"Key Insight #1", "Historical Context", "Expert Perspective",
      "Real-World Application", "Deep Dive">>
MockChunkLead ==
    <<"Discover the fundamental concepts behind ",
      "Learn about the evolution and background of ",
      "Industry leaders share their insights on ",
      "See how ",
      "An in-depth exploration of the most fascinating aspects of ">>
MockChunkTail ==
    <<". This chunk explores the basics and sets the foundation for deeper understanding.",
      ". Understanding the past helps illuminate the present.",
      ". Gain valuable knowledge from those at the forefront.",
      " manifests in everyday life. Practical examples that bring theory to reality.",
      ". For those who want to go further.">>

\* a generator that decorates every mock chunk with the story's image in
\* both revisions
generateMockChunksStoryImage(ver, s) ==
    [i \in 1..5 |->
        [id |-> Some(i),
         title |-> Some(MockChunkTitles[i]),
         content |-> Some(MockChunkLead[i] \o Interp(s.title) \o MockChunkTail[i]),
         image |-> s.image,
         imageKeywords |-> IF ver = "v1" THEN None ELSE Some(chunkKeywords[i])]]

generateMockChunks(ver, s) ==
    [i \in 1..5 |->
        [id |-> Some(i),
         title |-> Some(MockChunkTitles[i]),
         content |-> Some(MockChunkLead[i] \o Interp(s.title) \o MockChunkTail[i]),
         image |-> IF ver = "v1" THEN s.image
                   ELSE getFallbackImage(Some(chunkKeywords[i])),
         imageKeywords |-> IF ver = "v1" THEN None ELSE Some(chunkKeywords[i])]]

\* The stories a click can open: the hand-authored ones of either revision.
ClickableStories ==
    {generateMockStories(ver)[i] : ver \in {"v1", "v2"}, i \in 1..3}

\* The idle values of the parseJSON harness.
NoParse == [ok |-> FALSE, val |-> NoValue, err |-> NoErr]
PIdle == [payload |-> <<>>, w |-> [fenced |-> FALSE, tag |-> <<>>, nl |-> FALSE, pad |-> FALSE]]
POutIdle == [done |-> FALSE, cleaned |-> <<>>, wrapped |-> NoParse, bare |-> NoParse]

----------------------------------------------------------------------------
(* One invocation of a generation flow, from the click to the page's        *)
(* continuation                                                              *)

\* The wrappings a provider's text arrives in on the wire.
WireWrappers ==
    {[fenced |-> FALSE, tag |-> <<>>, nl |-> FALSE, pad |-> FALSE],
     [fenced |-> TRUE, tag |-> JsonTag, nl |-> TRUE, pad |-> FALSE],
     [fenced |-> TRUE, tag |-> <<"j", "s">>, nl |-> TRUE, pad |-> FALSE]}
WireTexts == {Wrap(w, p) : w \in WireWrappers, p \in Payloads}

\* The completion candidates of a success response: one text, or two of which
\* the first is the empty array.
WireCandidates ==
    {<<t>> : t \in WireTexts} \cup {<<ArrayText(<<>>), ArrayText(PrefixArray(1))>>}

NoResult == [ok |-> FALSE, entities |-> <<>>, err |-> NoErr]
Returned(entities) == [ok |-> TRUE, entities |-> entities, err |-> NoErr]

\* a catch block that answers a failure with mock content
FlowCatchMock(k, s, e) ==
    Returned(IF k = "stories" THEN generateMockStories("v2")
             ELSE generateMockChunks("v2", s))

\* The flows' catch blocks (52-55, 88-91, 262-265, 307-310): log and rethrow.
FlowCatch(k, s, e) == [ok |-> FALSE, entities |-> <<>>, err |-> e]

Range(f) == {f[i] : i \in DOMAIN f}

\* One promise of the fan-out.  st: unstarted | pending | fulfilled | rejected;
\* lookup: how its external lookup ended.
Slot(st, lookup, value) == [st |-> st, lookup |-> lookup, value |-> value]

\* a map over parsed.slice(0, 5)
LaunchAtMostFive(items) ==
    [i \in 1..(IF Len(items) < 5 THEN Len(items) ELSE 5) |->
        Slot("pending", "", NoStory)]

\* parsed.map(async (item) => ...) at 245 and 292: every callback runs up to
\* its await, which starts its lookup, before map returns.
LaunchAll(items) == [i \in 1..Len(items) |-> Slot("pending", "", NoStory)]

\* a join that keeps the values in the order they arrive
StoreByArrival(ss, i, slot) ==
    LET j == CHOOSE m \in DOMAIN ss :
                 /\ ss[m].st = "pending"
                 /\ \A l \in DOMAIN ss : ss[l].st = "pending" => m <= l
    IN  [ss EXCEPT ![j] = slot]

\* Promise.all (244, 291) keeps the value of its i-th promise at index i.
StoreByIndex(ss, i, slot) == [ss EXCEPT ![i] = slot]

\* Promise.race in the place of Promise.all
PromiseRaceReady(ss) == \E i \in DOMAIN ss : ss[i].st \in {"fulfilled", "rejected"}

\* Promise.all settles once a promise has rejected or all are fulfilled.
PromiseAllReady(ss) ==
    \/ \E i \in DOMAIN ss : ss[i].st = "rejected"
    \/ \A i \in DOMAIN ss : ss[i].st = "fulfilled"

ImageRejection == Err("Error", "image lookup failed")

\* What the awaited Promise.all hands to the flow.
PromiseAll(k, s, ss) ==
    IF \E i \in DOMAIN ss : ss[i].st = "rejected"
      THEN FlowCatch(k, s, ImageRejection)
      ELSE Returned([i \in DOMAIN ss |-> ss[i].value])

FlowPageInit ==
    /\ pc = "idle" /\ kind = "none" /\ version = "v2" /\ config = "none"
    /\ story = NoStory /\ netCalls = 0 /\ fetchResponse = NoResponse
    /\ dispatchResult = NotDispatched
    /\ parsed = <<>> /\ slots = <<>> /\ flowResult = NoResult
    /\ storedStories = <<>> /\ storedChunks = [story |-> NoStory, chunks |-> <<>>]
    /\ hasStarted = FALSE
    /\ pageError = "" /\ busy = FALSE /\ location = "/settings"

\* ChatbotPage is not mounted.
ChatIdle ==
    /\ chatPhase = "unmounted" /\ chatStory = NoStory /\ messages = <<>>
    /\ input = <<>> /\ isTyping = FALSE /\ showMotivation = TRUE
    /\ sendLen = 0 /\ sendInput = <<>>

\* No image has been resolved in the session.
CacheIdle == photoCache = <<>> /\ lookupCalls = <<>> /\ resolutions = <<>>

ParseIdle == pIn = PIdle /\ pOut = POutIdle

\* The idle values of the generateMockChunks harness.
MIdle == [a |-> NoStory, b |-> NoStory, ver |-> "v2"]
MOutIdle == [done |-> FALSE, ra |-> <<>>, rb |-> <<>>]
MockIdle == mIn = MIdle /\ mOut = MOutIdle

\* StoriesPage has no generation out and no story selected (part_000 53).
ClickIdle == inflight = <<>> /\ selectedStory = NoStory

\* The forms as useState leaves them (SettingsPage 15-21, AddHistoryPage
\* 12-13) over an empty storage.
FormIdle ==
    /\ urls = <<>> /\ browsingHistory = <<>> /\ urlInput = <<>>
    /\ formProvider = "gemini" /\ apiKey = <<>> /\ apiConfig = None
    /\ lastCall = "edit"

MoreIdle == MockIdle /\ ClickIdle /\ FormIdle

Init == FlowPageInit /\ ParseIdle /\ ChatIdle /\ CacheIdle /\ MoreIdle

\* a flow that calls llm.generate... without await and goes straight on
NoAwaitDispatch == "dispatched"

\* `await llm.generateStories(urls)` (34, 233; 68, 275; 108, 326): with the
\* fetch out, the flow stays suspended until the transport settles.
AwaitDispatch == "fetching"

\* The flow up to its first await: LLMService is built, the prompt is built
\* and sendMessage either issues the transport's fetch or throws.
StartFlow(k, ver, cfg, s) ==
    /\ kind' = k /\ version' = ver /\ config' = cfg /\ story' = s
    /\ parsed' = <<>> /\ slots' = <<>> /\ flowResult' = NoResult
    /\ fetchResponse' = NoResponse
    /\ IF IssuesFetch(cfg)
         THEN /\ netCalls' = 1
              /\ dispatchResult' = NotDispatched
              /\ pc' = AwaitDispatch
         ELSE /\ netCalls' = 0
              /\ dispatchResult' = sendMessage(cfg, "net_fail", <<>>)
              /\ pc' = "dispatched"

\* AddHistoryPage.handleDemoMode (82-87), SettingsPage.handleDemoMode (125-130)
handleDemoMode(ver) ==
    /\ pc = "idle" /\ location = "/settings"
    /\ storedStories' = generateMockStories(ver)
    /\ hasStarted' = TRUE
    /\ location' = "/stories"
    /\ UNCHANGED <<flowVars, storedChunks, pageError, busy, sideVars>>

\* handleGenerateStories (AddHistoryPage 59-79, SettingsPage 96-122) with a
\* configuration and a non-empty URL list, up to its await.
handleGenerateStories(ver, cfg) ==
    /\ pc = "idle" /\ location = "/settings"
    /\ busy' = TRUE /\ pageError' = ""
    /\ StartFlow("stories", ver, cfg, NoStory)
    /\ UNCHANGED <<storedStories, storedChunks, hasStarted, location, sideVars>>

\* StoriesPage.handleStoryClick (part_000 77-103) with no configuration
\* stored: the mock chunks are stored at once.
handleStoryClickMock(ver, s) ==
    /\ pc = "idle" /\ location = "/stories"
    /\ s \in Range(storedStories) \cap ClickableStories
    /\ storedChunks' = [story |-> s, chunks |-> generateMockChunks(ver, s)]
    /\ location' = "/chunks"
    /\ pageError' = "" /\ busy' = FALSE
    /\ UNCHANGED <<flowVars, storedStories, hasStarted, sideVars>>

\* StoriesPage.handleStoryClick with a configuration stored, up to its await.
handleStoryClick(ver, cfg, s) ==
    /\ pc = "idle" /\ location = "/stories"
    /\ s \in Range(storedStories) \cap ClickableStories
    /\ busy' = TRUE /\ pageError' = ""
    /\ StartFlow("chunks", ver, cfg, s)
    /\ UNCHANGED <<storedStories, storedChunks, hasStarted, location, sideVars>>

\* The provider answers the fetch and the transport settles.
HttpRespond(outcome, candidates) ==
    /\ pc = "fetching"
    /\ fetchResponse' = Response(outcome, candidates)
    /\ LET result == sendMessage(config, outcome, candidates)
       IN  IF FetchesAgain(result, netCalls)
             THEN /\ netCalls' = netCalls + 1
                  /\ UNCHANGED <<pc, dispatchResult>>
             ELSE /\ dispatchResult' = result
                  /\ pc' = "dispatched"
                  /\ UNCHANGED netCalls
    /\ UNCHANGED <<kind, version, config, story, parsed, slots, flowResult,
                   pageVars, sideVars>>

\* parsed.map on something that is no array
NotAnArray == Err("TypeError", "parsed.map is not a function")

\* The flow resumes after `await llm.generate...`: a rejected dispatch goes to
\* the catch block; otherwise parseJSON runs, then parsed.map.
ParseAndMap ==
    /\ pc = "dispatched"
    /\ LET p == parseJSON(dispatchResult.text)
           items == [i \in 1..Len(p.val.items) |-> ObjOf(p.val.items[i])]
       IN  IF ~dispatchResult.ok
             THEN /\ flowResult' = FlowCatch(kind, story, dispatchResult.err)
                  /\ pc' = "settled"
                  /\ UNCHANGED <<parsed, slots>>
           ELSE IF ~p.ok
             THEN /\ flowResult' = FlowCatch(kind, story, p.err)
                  /\ pc' = "settled"
                  /\ UNCHANGED <<parsed, slots>>
           ELSE IF p.val.t # "array"
             THEN /\ flowResult' = FlowCatch(kind, story, NotAnArray)
                  /\ pc' = "settled"
                  /\ UNCHANGED <<parsed, slots>>
           ELSE IF version = "v1"
             THEN /\ parsed' = items
                  /\ flowResult' = Returned(MapV1(kind, items, story))
                  /\ pc' = "settled"
                  /\ UNCHANGED slots
           ELSE /\ parsed' = items
                /\ slots' = LaunchAll(items)
                /\ pc' = "fanout"
                /\ UNCHANGED flowResult
    /\ UNCHANGED <<kind, version, config, story, netCalls, fetchResponse,
                   dispatchResult, pageVars, sideVars>>

\* The external lookup of record i ends and its callback runs to its return.
LookupSettle(i, lookup) ==
    /\ pc = "fanout"
    /\ i \in DOMAIN slots /\ slots[i].st = "pending"
    /\ LET img == getImageForKeywords(KeywordsV2(kind, parsed[i], story), lookup)
           slot == IF img.ok
                     THEN Slot("fulfilled", lookup,
                               EntityV2(kind, parsed[i], story, img.url))
                     ELSE Slot("rejected", lookup, NoStory)
       IN  slots' = StoreByIndex(slots, i, slot)
    /\ UNCHANGED <<pc, kind, version, config, story, netCalls, fetchResponse,
                   dispatchResult, parsed, flowResult, pageVars, sideVars>>

\* The awaited Promise.all settles and the flow returns (or rethrows).
Join ==
    /\ pc = "fanout"
    /\ PromiseAllReady(slots)
    /\ flowResult' = PromiseAll(kind, story, slots)
    /\ pc' = "settled"
    /\ UNCHANGED <<kind, version, config, story, netCalls, fetchResponse,
                   dispatchResult, parsed, slots, pageVars, sideVars>>

\* a catch block that clears the error instead of setting it
ErrorMessageBlank(e) == ""

\* err instanceof Error ? err.message : 'Failed to generate ...' (AddHistoryPage
\* 75, SettingsPage 118, part_000 98); everything the flows throw is an Error.
ErrorMessage(e) == e.message

\* The page resumes after its await: the try block's rest or the catch
\* block, then finally (AddHistoryPage 70-78, SettingsPage 114-121,
\* part_000 94-102).
CallerContinue ==
    /\ pc = "settled"
    /\ IF flowResult.ok
         THEN /\ pageError' = pageError
              /\ IF kind = "stories"
                   THEN /\ storedStories' = flowResult.entities
                        /\ hasStarted' = TRUE
                        /\ location' = "/stories"
                        /\ UNCHANGED storedChunks
                   ELSE /\ storedChunks' = [story |-> story,
                                            chunks |-> flowResult.entities]
                        /\ location' = "/chunks"
                        /\ UNCHANGED <<storedStories, hasStarted>>
         ELSE /\ pageError' = ErrorMessage(flowResult.err)
              /\ UNCHANGED <<storedStories, storedChunks, hasStarted, location>>
    /\ busy' = FALSE
    /\ pc' = "idle" /\ kind' = "none" /\ version' = "v2" /\ config' = "none"
    /\ story' = NoStory /\ netCalls' = 0 /\ dispatchResult' = NotDispatched
    /\ fetchResponse' = NoResponse
    /\ parsed' = <<>> /\ slots' = <<>> /\ flowResult' = NoResult
    /\ UNCHANGED sideVars

Next ==
    \/ \E ver \in {"v1", "v2"} : handleDemoMode(ver)
    \/ \E ver \in {"v1", "v2"}, cfg \in Configs : handleGenerateStories(ver, cfg)
    \/ \E ver \in {"v1", "v2"}, s \in ClickableStories : handleStoryClickMock(ver, s)
    \/ \E ver \in {"v1", "v2"}, cfg \in Configs, s \in ClickableStories :
          handleStoryClick(ver, cfg, s)
    \/ \E outcome \in HttpOutcomes :
          \E candidates \in IF outcome = "ok_text" THEN WireCandidates ELSE {<<>>} :
              HttpRespond(outcome, candidates)
    \/ ParseAndMap
    \/ \E i \in 1..MaxRecords, lookup \in Lookups : LookupSettle(i, lookup)
    \/ Join
    \/ CallerContinue

Spec == Init /\ [][Next]_vars

----------------------------------------------------------------------------
(* The parseJSON harness: one payload, wrapped one way, parsed both ways *)

ParseInit ==
    /\ FlowPageInit /\ ChatIdle /\ CacheIdle /\ MoreIdle
    /\ pIn \in [payload : Payloads, w : Wrappers]
    /\ pOut = POutIdle

ApplyParse ==
    /\ ~pOut.done
    /\ pOut' = [done |-> TRUE,
                cleaned |-> cleanResponse(Wrap(pIn.w, pIn.payload)),
                wrapped |-> parseJSON(Wrap(pIn.w, pIn.payload)),
                bare |-> parseJSON(pIn.payload)]
    /\ UNCHANGED <<pIn, flowVars, pageVars, chatVars, cacheVars, moreVars>>

ParseNext == ApplyParse

ParseSpec == ParseInit /\ [][ParseNext]_vars

----------------------------------------------------------------------------
(* ChatbotPage: components/pages/ChatbotPage.tsx *)

\* The longest message list a send is still modelled for.
MaxMessages == 4

\* String.prototype.toLowerCase, on the letters the messages of this model use
LowerChar(c) ==
    CASE c = "S" -> "s" [] c = "W" -> "w" [] c = "H" -> "h"
      [] c = "A" -> "a" [] c = "T" -> "t" [] OTHER -> c
toLowerCase(s) == [i \in 1..Len(s) |-> LowerChar(s[i])]

\* String.prototype.includes
includes(s, sub) ==
    \E i \in 1..(Len(s) - Len(sub) + 1) : SubSeq(s, i, i + Len(sub) - 1) = sub

KwSummary == <<"s", "u", "m", "m", "a", "r", "y">>
KwSummarize == <<"s", "u", "m", "m", "a", "r", "i", "z", "e">>
KwWhy == <<"w", "h", "y">>
KwReason == <<"r", "e", "a", "s", "o", "n">>
KwHow == <<"h", "o", "w">>
KwWhat == <<"w", "h", "a", "t">>
KwExample == <<"e", "x", "a", "m", "p", "l", "e">>

\* What the user can type: messages that hit each keyword group (in either
\* case, and inside another word), one that hits none, blank and empty input.
WhyMessage == <<"w", "h", "y", " ", "d", "o", "e", "s", " ", "t", "h", "i", "s", " ", "m", "a", "t", "t", "e", "r">>
UserInputs ==
    {WhyMessage, <<"S", "u", "m", "m", "a", "r", "i", "z", "e", " ", "i", "t">>, <<"s", "h", "o", "w", " ", "m", "e">>, <<"W", "H", "A", "T">>, <<"a", "n", " ", "e", "x", "a", "m", "p", "l", "e">>,
     <<"t", "h", "e", " ", "r", "e", "a", "s", "o", "n">>, <<"h", "e", "l", "l", "o">>, <<" ", " ">>, <<>>}

\* The canned replies.  A text is the sequence of its pieces; a story title
\* interpolated into it is one piece.
SummaryReply(storyTitle) ==
    <<"Great question! The key takeaway from \"", Interp(storyTitle),
      "\" is understanding how different perspectives shape our view of this topic. The chunks you read covered various aspects from historical context to future trends.">>
WhyReply ==
    <<"That's an insightful question! This topic is important because it impacts how we think about and approach related concepts. Each chunk revealed different layers of understanding.">>
HowReply ==
    <<"Excellent question! Based on the chunks you've read, there are multiple approaches to this. The real-world applications we covered show practical ways this manifests in everyday life.">>
ExampleReply ==
    <<"From what you've learned, you can apply these insights in various scenarios. The expert perspectives shared some compelling examples of implementation.">>
DefaultReply(storyTitle) ==
    <<"That's a thought-provoking question about \"", Interp(storyTitle),
      "\". Based on the chunks you've read, this connects to the broader themes of understanding context, expert insights, and real-world applications. What specific aspect interests you most?">>

\* generateFallbackResponse that compares the message as typed
generateFallbackResponseAsTyped(userMessage, storyTitle) ==
    IF includes(userMessage, KwSummary) \/ includes(userMessage, KwSummarize)
      THEN SummaryReply(storyTitle)
    ELSE IF includes(userMessage, KwWhy) \/ includes(userMessage, KwReason)
      THEN WhyReply
    ELSE IF includes(userMessage, KwHow) \/ includes(userMessage, KwWhat)
      THEN HowReply
    ELSE IF includes(userMessage, KwExample) THEN ExampleReply
    ELSE DefaultReply(storyTitle)

\* generateFallbackResponse (133-153)
generateFallbackResponse(userMessage, storyTitle) ==
    LET lowerMessage == toLowerCase(userMessage)
    IN  IF includes(lowerMessage, KwSummary) \/ includes(lowerMessage, KwSummarize)
          THEN SummaryReply(storyTitle)
        ELSE IF includes(lowerMessage, KwWhy) \/ includes(lowerMessage, KwReason)
          THEN WhyReply
        ELSE IF includes(lowerMessage, KwHow) \/ includes(lowerMessage, KwWhat)
          THEN HowReply
        ELSE IF includes(lowerMessage, KwExample) THEN ExampleReply
        ELSE DefaultReply(storyTitle)

\* The first bot message (37-42)
Greeting(storyTitle) ==
    <<"Great job completing \"", Interp(storyTitle),
      "\"! I'm here to help you reflect on what you've learned. Feel free to ask me any questions!">>

Apology == <<"Sorry, I had trouble generating a response. Please try again.">>

Message(id, text, sender) == [id |-> id, text |-> text, sender |-> sender]

\* a catch block that shows the error's message
ChatCatchRaw(error, userMessage, storyTitle) == <<error.message>>

\* a catch block that answers with the canned reply of the message
ChatCatchCanned(error, userMessage, storyTitle) ==
    generateFallbackResponse(userMessage, storyTitle)

\* handleSend's catch block (118-126): the text of the message it appends.
\* error, input and story are what the block has in scope.
ChatCatch(error, userMessage, storyTitle) == Apology

\* What a provider answers a chat prompt with: a text, an empty text, two
\* completions.
ChatCandidates ==
    {<<<<"It matters because it changes how you work.">>>>, <<<<>>>>,
     <<<<"First completion.">>, <<"Second completion.">>>>}

\* The stories a reader can have finished when the page is opened.
ChatStories == {generateMockStories("v2")[1], generateMockStories("v1")[2]}

\* The mount effect (23-48): the stored story is loaded and the first timer
\* is set, or, with no stored story, the page navigates to /stories.
MountChat ==
    /\ chatPhase = "unmounted" /\ location = "/chat"
    /\ IF storedChunks.story # NoStory
         THEN /\ chatStory' = storedChunks.story
              /\ chatPhase' = "motivation"
              /\ UNCHANGED location
         ELSE /\ location' = "/stories"
              /\ UNCHANGED <<chatStory, chatPhase>>
    /\ UNCHANGED <<messages, input, isTyping, showMotivation, sendLen, sendInput,
                   flowVars, storedStories, storedChunks, hasStarted, pageError,
                   busy, parseVars, cacheVars, moreVars>>

\* The 2000 ms timer (32-44): the motivation card goes, the 300 ms timer is set.
MotivationTimeout ==
    /\ chatPhase = "motivation"
    /\ showMotivation' = FALSE
    /\ chatPhase' = "greeting"
    /\ UNCHANGED <<chatStory, messages, input, isTyping, sendLen, sendInput,
                   flowVars, pageVars, parseVars, cacheVars, moreVars>>

\* The 300 ms timer (36-43): setMessages([greeting]).
GreetingTimeout ==
    /\ chatPhase = "greeting"
    /\ messages' = <<Message(1, Greeting(chatStory.title), "bot")>>
    /\ chatPhase' = "ready"
    /\ UNCHANGED <<chatStory, input, isTyping, showMotivation, sendLen, sendInput,
                   flowVars, pageVars, parseVars, cacheVars, moreVars>>

\* The input field's onChange (328); the field is disabled while isTyping.
TypeInput(text) ==
    /\ chatPhase # "unmounted" /\ ~isTyping
    /\ input # text
    /\ input' = text
    /\ UNCHANGED <<chatPhase, chatStory, messages, isTyping, showMotivation,
                   sendLen, sendInput, flowVars, pageVars, parseVars, cacheVars, moreVars>>

\* a guard that lets a blank input through
SendRejectedUnlessBlank(text, typing, s) == typing \/ s = NoStory

\* ChatbotPage.tsx 77: if (!input.trim() || isTyping || !story) return;
SendRejected(text, typing, s) == Trim(text) = <<>> \/ typing \/ s = NoStory

\* handleSend (76-130) up to its await, or to its end when no configuration
\* is stored.  cfg is what storageService.getApiConfig() returns.
handleSend(cfg) ==
    /\ chatPhase # "unmounted"
    /\ Len(messages) + 2 <= MaxMessages
    /\ ~SendRejected(input, isTyping, chatStory)
    /\ input' = <<>>
    /\ sendLen' = Len(messages) /\ sendInput' = input
    /\ IF cfg = "none"
         THEN /\ messages' =
                    messages \o
                    <<Message(Len(messages) + 1, input, "user"),
                      Message(Len(messages) + 2,
                              generateFallbackResponse(input, chatStory.title),
                              "bot")>>
              /\ isTyping' = FALSE
              /\ UNCHANGED flowVars
         ELSE /\ messages' = Append(messages, Message(Len(messages) + 1, input, "user"))
              /\ isTyping' = TRUE
              /\ StartFlow("chat", "v1", cfg, chatStory)
    /\ UNCHANGED <<chatPhase, chatStory, showMotivation, pageVars, parseVars,
                   cacheVars, moreVars>>

\* generateChatResponse resumes after `await llm.chat(...)` and returns the
\* text or rethrows (contentGenerator.ts 107-124); handleSend resumes after
\* its await: the bot message or the catch block's message is appended, then
\* finally (110-129).
ChatContinue ==
    /\ pc = "dispatched" /\ kind = "chat"
    /\ LET responseText == IF dispatchResult.ok THEN dispatchResult.text
                           ELSE ChatCatch(dispatchResult.err, sendInput,
                                          chatStory.title)
       IN  messages' = Append(messages, Message(sendLen + 2, responseText, "bot"))
    /\ isTyping' = FALSE
    /\ pc' = "idle" /\ kind' = "none" /\ version' = "v2" /\ config' = "none"
    /\ story' = NoStory /\ netCalls' = 0 /\ dispatchResult' = NotDispatched
    /\ fetchResponse' = NoResponse
    /\ parsed' = <<>> /\ slots' = <<>> /\ flowResult' = NoResult
    /\ UNCHANGED <<chatPhase, chatStory, input, showMotivation, sendLen,
                   sendInput, pageVars, parseVars, cacheVars, moreVars>>

\* The page is opened with or without a finished story in storage.
ChatInit ==
    /\ pc = "idle" /\ kind = "none" /\ version = "v2" /\ config = "none"
    /\ story = NoStory /\ netCalls = 0 /\ fetchResponse = NoResponse
    /\ dispatchResult = NotDispatched
    /\ parsed = <<>> /\ slots = <<>> /\ flowResult = NoResult
    /\ storedStories = <<>>
    /\ storedChunks \in
          {[story |-> s, chunks |-> generateMockChunks("v2", s)] : s \in ChatStories}
          \cup {[story |-> NoStory, chunks |-> <<>>]}
    /\ hasStarted = TRUE
    /\ pageError = "" /\ busy = FALSE /\ location = "/chat"
    /\ ParseIdle /\ ChatIdle /\ CacheIdle /\ MoreIdle

ChatNext ==
    \/ MountChat
    \/ MotivationTimeout
    \/ GreetingTimeout
    \/ \E text \in UserInputs : TypeInput(text)
    \/ \E cfg \in Configs \cup {"none"} : handleSend(cfg)
    \/ \E outcome \in HttpOutcomes :
          \E candidates \in IF outcome = "ok_text" THEN ChatCandidates ELSE {<<>>} :
              HttpRespond(outcome, candidates)
    \/ ChatContinue

ChatSpec == ChatInit /\ [][ChatNext]_vars

----------------------------------------------------------------------------
(* The image cache of ./unsplash and the resolutions of one session.  In the  *)
(* flows above every lookup may resolve or reject on its own; here the cache *)
(* decides which resolutions issue a lookup at all.                           *)

\* The most resolutions one fan-out launches, and the most of a session.
MaxBatch == 2
MaxResolutions == 4

\* The keyword strings of the session.
CacheKeys == {Some("kw0"), Some("kw1")}

\* The keyword strings one parsed.map hands to getImageForKeywords, in order.
Batches == UNION {[1..n -> CacheKeys] : n \in 1..MaxBatch}

\* One call of getImageForKeywords.  lookup: "cached" when getCachedPhotoUrl
\* answers from the cache, "" while its external lookup is out, then how the
\* lookup ended.
Resolution(keywords, st, lookup, url) ==
    [keywords |-> keywords, st |-> st, lookup |-> lookup, url |-> url]

\* getCachedPhotoUrl's check of the cache: a key-presence check.
CacheHit(cache, keywords) == keywords \in DOMAIN cache

\* getImageForKeywords(keywords) up to its await: getCachedPhotoUrl answers
\* from the cache or issues the external lookup.
StartResolution(cache, keywords) ==
    IF CacheHit(cache, keywords)
      THEN Resolution(keywords, "done", "cached", cache[keywords])
      ELSE Resolution(keywords, "pending", "", <<>>)

\* The async callbacks of one parsed.map (244-248, 291-295) run up to their
\* await one after the other, before any lookup can come back: every
\* resolution of the batch sees the cache as it is now.
FanOut(ks) ==
    /\ Len(resolutions) + Len(ks) <= MaxResolutions
    /\ resolutions' =
          resolutions \o [i \in 1..Len(ks) |-> StartResolution(photoCache, ks[i])]
    /\ lookupCalls' =
          lookupCalls \o SelectSeq(ks, LAMBDA k : ~CacheHit(photoCache, k))
    /\ UNCHANGED <<photoCache, flowVars, pageVars, parseVars, chatVars, moreVars>>

\* The external lookup of resolution i comes back: getCachedPhotoUrl stores
\* and returns the URL, or throws and getImageForKeywords' catch answers.
LookupReturn(i, lookup) ==
    /\ i \in DOMAIN resolutions /\ resolutions[i].st = "pending"
    /\ LET k == resolutions[i].keywords
           img == getImageForKeywords(k, lookup)
       IN  /\ resolutions' =
                 [resolutions EXCEPT ![i] = Resolution(k, "done", lookup, img.url)]
           /\ photoCache' =
                 IF lookup = "resolved"
                   THEN [x \in DOMAIN photoCache \cup {k} |->
                            IF x = k THEN ResolvedPhotoUrl(k) ELSE photoCache[x]]
                   ELSE photoCache
    /\ UNCHANGED <<lookupCalls, flowVars, pageVars, parseVars, chatVars, moreVars>>

CacheInit == FlowPageInit /\ ParseIdle /\ ChatIdle /\ CacheIdle /\ MoreIdle

CacheNext ==
    \/ \E ks \in Batches : FanOut(ks)
    \/ \E i \in 1..MaxResolutions, lookup \in Lookups : LookupReturn(i, lookup)

CacheSpec == CacheInit /\ [][CacheNext]_vars

----------------------------------------------------------------------------
(* C4 *)

\* The payload of the harness is well-formed JSON.
WellFormed == pIn.payload \in JsonPayloads

\* C4 as stated: for every well-formed JSON payload, parsing it wrapped in a
\* fenced block, with no language tag or with any language tag, yields the
\* result of parsing the payload directly.
C4_AnyTag ==
    (pOut.done /\ WellFormed) => pOut.wrapped = pOut.bare

\* C4, amended: for every well-formed JSON payload, parsing it wrapped in a
\* fenced block with no language tag or with the tag json (with or without
\* line breaks after the opening and before the closing fence, with or without
\* surrounding white space) yields the result of parsing the payload directly,
\* and the text handed to JSON.parse is the payload itself; an unfenced payload
\* is handed to JSON.parse unchanged.
C4_JsonTag ==
    (pOut.done /\ WellFormed /\ pIn.w.tag \in {<<>>, JsonTag})
        => /\ pOut.wrapped = pOut.bare
           /\ pOut.wrapped.ok
           /\ pOut.cleaned = pIn.payload

\* A well-formed array in a fenced json block has been parsed.
C4_Witness ==
    /\ pOut.done /\ pIn.w.fenced /\ pIn.w.tag = JsonTag
    /\ pIn.payload = ArrayText(PrefixArray(2))
    /\ pOut.wrapped.ok /\ pOut.wrapped.val.t = "array"
    /\ Len(pOut.wrapped.val.items) = 2

----------------------------------------------------------------------------
(* The claims about one flow invocation, checked under Spec *)

\* What parseJSON makes of the text the dispatch settled with.
ParsedResponse == parseJSON(dispatchResult.text)

\* The invocation got as far as an array of records.
GotArray ==
    /\ kind # "none" /\ dispatchResult.ok
    /\ ParsedResponse.ok /\ ParsedResponse.val.t = "array"

\* The number of records in the provider's array.
RecordCount == Len(ParsedResponse.val.items)

\* Every entity in sight: returned, held by a fulfilled promise, or stored.
Entities ==
    Range(flowResult.entities)
    \cup {slots[i].value : i \in {j \in DOMAIN slots : slots[j].st = "fulfilled"}}
    \cup Range(storedStories) \cup Range(storedChunks.chunks)

\* C1: in the v2 flows, for a parsed batch of N records and any subset of the
\* N image lookups failing, no promise of the fan-out rejects and the flow
\* returns all N entities.
C1_BatchSurvivesImageFailures ==
    (version = "v2" /\ GotArray)
        => /\ \A i \in DOMAIN slots : slots[i].st # "rejected"
           /\ pc = "settled" => /\ flowResult.ok
                                /\ Len(flowResult.entities) = RecordCount

\* A batch of three has returned whole with one lookup resolved and two failed.
C1_Witness ==
    /\ pc = "settled" /\ version = "v2" /\ flowResult.ok
    /\ Len(flowResult.entities) = 3
    /\ slots[1].lookup = "rejected" /\ slots[2].lookup = "resolved"
    /\ slots[3].lookup = "rejected"

\* The error the dispatch or the parsing raised, if one did.
StepFailure ==
    IF ~dispatchResult.ok THEN dispatchResult.err
    ELSE IF ~ParsedResponse.ok THEN ParsedResponse.err
    ELSE NoErr

\* C2: when dispatch or parsing fails inside a generation flow, the flow
\* settles with that very error and no entity, and the step of the calling
\* page that follows stores nothing, does not navigate and shows the error's
\* message.
C2_FailurePropagates ==
    [][(pc = "settled" /\ StepFailure # NoErr)
          => /\ flowResult = [ok |-> FALSE, entities |-> <<>>, err |-> StepFailure]
             /\ storedStories' = storedStories
             /\ storedChunks' = storedChunks
             /\ hasStarted' = hasStarted
             /\ location' = location
             /\ pageError' = StepFailure.message]_vars

\* The stories page is back at rest after a chunk generation whose parsing
\* failed: the error is shown and no chunks are stored.
C2_Witness ==
    /\ pc = "idle" /\ location = "/stories"
    /\ pageError = "Unexpected token"
    /\ storedChunks.chunks = <<>>

\* C3: a dispatch whose provider identifier is outside the three known ones
\* fails with the unknown-provider error, and no fetch is issued for it.
C3_UnsupportedProvider ==
    (kind # "none" /\ config \notin Providers)
        => /\ netCalls = 0
           /\ pc # "fetching"
           /\ dispatchResult = Rejected(UnknownProvider(config))
           /\ pc = "settled" => flowResult.err = UnknownProvider(config)

\* The flow has settled on the unknown-provider error without a fetch.
C3_Witness ==
    /\ pc = "settled" /\ config = "deepseek" /\ netCalls = 0
    /\ ~flowResult.ok /\ flowResult.err.message = "Unknown provider: deepseek"

\* A story record needs id, title and description; a chunk record id, title
\* and content.
MissesRequired(item) ==
    \/ item.id = None \/ item.title = None
    \/ IF kind = "stories" THEN item.description = None ELSE item.content = None

\* The decoded text does not have the expected shape.
ShapeMismatch ==
    /\ ParsedResponse.ok
    /\ \/ ParsedResponse.val.t # "array"
       \/ \E i \in 1..RecordCount : MissesRequired(ObjOf(ParsedResponse.val.items[i]))

\* C5: the flow fails, and constructs no entity, both when the fence-stripped
\* text is no valid JSON and when it is valid JSON of another shape (not an
\* array, or a record missing a required field).
C5_MalformedRejected ==
    (kind # "none" /\ dispatchResult.ok /\ pc \in {"fanout", "settled"}
        /\ (~ParsedResponse.ok \/ ShapeMismatch))
        => /\ slots = <<>>
           /\ pc = "settled"
           /\ ~flowResult.ok /\ flowResult.entities = <<>>

\* C6: every Story and every Chunk, returned by a generative flow, held by a
\* promise of the fan-out, made by a mock or stored, has a non-empty image.
C6_ImageNonEmpty == \A e \in Entities : e.image # <<>>

\* A v2 batch has returned although every one of its lookups failed.
C6_Witness ==
    /\ pc = "settled" /\ version = "v2" /\ flowResult.ok
    /\ Len(slots) = 2
    /\ \A i \in DOMAIN slots : slots[i].lookup = "rejected"

\* C7: image resolution never fails: every promise of the fan-out that has
\* settled is fulfilled with a non-empty URL, which is the fallback URL of
\* its keywords when the external lookup failed; getUnsplashImage (v1) gives
\* a non-empty URL too.
C7_ResolveNeverFails ==
    /\ \A i \in DOMAIN slots :
          slots[i].st \notin {"pending", "unstarted"}
             => /\ slots[i].st = "fulfilled"
                /\ slots[i].value.image # <<>>
                /\ slots[i].lookup = "rejected"
                      => slots[i].value.image
                            = getFallbackImage(slots[i].value.imageKeywords)
    /\ (pc = "settled" /\ version = "v1" /\ kind = "stories" /\ flowResult.ok)
          => \A i \in DOMAIN flowResult.entities :
                /\ flowResult.entities[i].image # <<>>
                /\ flowResult.entities[i].image = getUnsplashImage(parsed[i].image, i - 1)

\* A resolution whose lookup failed is fulfilled with the fallback URL.
C7_Witness ==
    /\ pc = "fanout" /\ Len(slots) >= 1
    /\ slots[1].st = "fulfilled" /\ slots[1].lookup = "rejected"
    /\ slots[1].value.image = <<"fallback://", "kw1">>

\* C8: the fan-out starts every one of the N resolutions at once, before any
\* of them completes, and the flow settles only when none is pending.
C8_FanOutFanIn ==
    /\ pc = "fanout"
          => /\ Len(slots) = Len(parsed)
             /\ \A i \in DOMAIN slots : slots[i].st # "unstarted"
    /\ pc = "settled"
          => \A i \in DOMAIN slots : slots[i].st \notin {"pending", "unstarted"}

\* Three resolutions are in flight and none has completed.
C8_Witness ==
    /\ pc = "fanout" /\ Len(slots) = 3
    /\ \A i \in DOMAIN slots : slots[i].st = "pending"

\* The entity is the one built from the record.
BuiltFrom(e, item) ==
    /\ e.id = item.id /\ e.title = item.title
    /\ IF kind = "stories" THEN e.description = item.description
       ELSE e.content = item.content

\* C9: whatever the order in which the resolutions complete, the promise at
\* index i holds the entity of record i, and the returned sequence has the
\* entity of record i at index i.
C9_OrderPreserved ==
    /\ \A i \in DOMAIN slots :
          slots[i].st = "fulfilled" => BuiltFrom(slots[i].value, parsed[i])
    /\ (pc = "settled" /\ flowResult.ok)
          => /\ Len(flowResult.entities) = Len(parsed)
             /\ \A i \in DOMAIN parsed : BuiltFrom(flowResult.entities[i], parsed[i])

\* The third resolution of a chunk batch has completed before the first.
C9_Witness ==
    /\ pc = "fanout" /\ kind = "chunks" /\ Len(slots) = 3
    /\ slots[1].st = "pending" /\ slots[3].st = "fulfilled"
    /\ slots[3].value.title = Some("T3")

----------------------------------------------------------------------------
(* Ids and keyword strings *)

\* C11: within one returned batch every entity has an id and the ids are
\* pairwise distinct, also when the provider's array repeats an id or leaves
\* one out (the pipeline then assigns an increasing fallback id).
C11_IdsDistinct ==
    (pc = "settled" /\ flowResult.ok)
        => /\ \A i \in DOMAIN flowResult.entities : flowResult.entities[i].id # None
           /\ \A i, j \in DOMAIN flowResult.entities :
                 i # j => flowResult.entities[i].id # flowResult.entities[j].id

\* C12 as stated: when a record has no imageKeywords, the keyword string that
\* resolves the image and is stored as the entity's imageKeywords is the
\* entity's own title, for stories and for chunks.
C12_OwnTitle ==
    \A i \in DOMAIN slots :
        (slots[i].st = "fulfilled" /\ parsed[i].imageKeywords = None)
            => /\ slots[i].value.imageKeywords = parsed[i].title
               /\ slots[i].value.image
                     \in {ResolvedPhotoUrl(parsed[i].title),
                          getFallbackImage(parsed[i].title)}

\* The keyword string of a record without imageKeywords.
DefaultKeywords(item) ==
    IF item.image # None THEN item.image
    ELSE IF kind = "stories" THEN item.title
    ELSE IF story.imageKeywords # None THEN story.imageKeywords
    ELSE story.title

\* C12, amended: when a record has no imageKeywords, the keyword string that
\* resolves the image and is stored as the entity's imageKeywords is the
\* record's legacy image term if it has one; otherwise, for a story, the
\* story's own title, and for a chunk the imageKeywords of the story it
\* belongs to or, when that story has none, that story's title.
C12_FallbackChain ==
    \A i \in DOMAIN slots :
        (slots[i].st = "fulfilled" /\ parsed[i].imageKeywords = None)
            => /\ slots[i].value.imageKeywords = DefaultKeywords(parsed[i])
               /\ slots[i].value.image
                     = IF slots[i].lookup = "resolved"
                         THEN ResolvedPhotoUrl(DefaultKeywords(parsed[i]))
                         ELSE getFallbackImage(DefaultKeywords(parsed[i]))

\* The third chunk of a batch, whose record has no imageKeywords, carries the
\* keywords of its story.
C12_Witness ==
    /\ pc = "fanout" /\ kind = "chunks" /\ Len(slots) >= 3
    /\ story.imageKeywords = Some(MockKeywords[1])
    /\ parsed[3].imageKeywords = None
    /\ slots[3].st = "fulfilled"
    /\ slots[3].value.imageKeywords = Some(MockKeywords[1])

----------------------------------------------------------------------------
(* The provider call *)

\* C13: one flow invocation issues at most one provider fetch, whether the
\* flow succeeds or fails: once the fetch has come back, with a success or
\* with a failure, no fetch is outstanding and the count stays at one.
C13_SingleCall ==
    /\ netCalls <= 1
    /\ fetchResponse # NoResponse => (pc # "fetching" /\ netCalls = 1)
    /\ pc = "fetching" => netCalls = 1

\* A flow has failed on a non-success response after its one fetch.
C13_Witness ==
    /\ pc = "settled" /\ ~flowResult.ok /\ netCalls = 1
    /\ fetchResponse.outcome = "err_msg"
    /\ flowResult.err.message = "OpenAI API error: quota exceeded"

\* The prefix a transport puts before the message of a provider error.
ApiErrorPrefix(provider) ==
    CASE provider = "openai" -> "OpenAI API error: "
      [] provider = "anthropic" -> "Anthropic API error: "
      [] OTHER -> "Gemini API error: "

\* C14: for each transport, every non-success response ends in a provider
\* error whose message is the provider's own error.message when the body
\* carries one and the status text otherwise, also when the body has no error
\* field or cannot be decoded.
C14_ProviderError ==
    (kind # "none" /\ pc # "fetching"
        /\ fetchResponse.outcome \in {"err_msg", "err_nomsg", "err_undecodable"})
        => /\ ~dispatchResult.ok
           /\ dispatchResult.err.type = "Error"
           /\ dispatchResult.err.message
                 = ApiErrorPrefix(config)
                     \o (IF fetchResponse.outcome = "err_msg" THEN ProviderMessage
                         ELSE StatusText)

\* C15: a success response with zero completion candidates makes the
\* transport fail with a provider error (an Error saying the response was
\* empty) and no text, for each transport; with at least one candidate the
\* transport returns the first candidate's text.
C15_EmptyResponse ==
    (kind # "none" /\ pc # "fetching")
        => /\ fetchResponse.outcome = "ok_empty"
                 => /\ ~dispatchResult.ok
                    /\ dispatchResult.text = <<>>
                    /\ dispatchResult.err.type = "Error"
           /\ fetchResponse.outcome = "ok_text"
                 => dispatchResult = Settled(fetchResponse.candidates[1])

----------------------------------------------------------------------------
(* The chat flow, checked under ChatSpec *)

\* The step is a send with no configuration stored: the user message and the
\* reply are appended at once.
NoConfigSend == Len(messages') = Len(messages) + 2

\* The step is handleSend's continuation after a dispatch that failed.
FailedChatStep ==
    /\ pc = "dispatched" /\ kind = "chat" /\ ~dispatchResult.ok
    /\ pc' = "idle"

LastText(ms) == ms[Len(ms)].text

\* C16 as stated: with no provider configured, for every user message the
\* reply is non-empty, is the one the message and the story title determine,
\* contains the story title, and no network call is made.
C16_TitleInReply ==
    [][NoConfigSend
          => /\ LastText(messages') # <<>>
             /\ LastText(messages') = generateFallbackResponse(input, chatStory.title)
             /\ Interp(chatStory.title) \in Range(LastText(messages'))
             /\ netCalls' = 0 /\ pc' = "idle"]_vars

\* The message, in lower case, contains a word of the summary group, and of
\* any keyword group.
MentionsSummary(m) ==
    includes(toLowerCase(m), KwSummary) \/ includes(toLowerCase(m), KwSummarize)
MentionsKeyword(m) ==
    \E kw \in {KwSummary, KwSummarize, KwWhy, KwReason, KwHow, KwWhat, KwExample} :
        includes(toLowerCase(m), kw)

\* C16, amended: with no provider configured, for every user message the
\* reply is non-empty and no network call is made; the reply contains the
\* story title exactly when the message contains summary or summarize, or
\* none of the trigger words (compared in lower case, as substrings).
C16_CannedReply ==
    [][NoConfigSend
          => /\ LastText(messages') # <<>>
             /\ messages'[Len(messages')].sender = "bot"
             /\ Interp(chatStory.title) \in Range(LastText(messages'))
                   <=> (MentionsSummary(input) \/ ~MentionsKeyword(input))
             /\ netCalls' = 0 /\ pc' = "idle" /\ ~isTyping']_vars

\* "why does this matter" has been answered without a provider: the reply
\* does not name the story.
C16_Witness ==
    /\ Len(messages) = 2 /\ pc = "idle" /\ netCalls = 0
    /\ messages[1].text = WhyMessage /\ messages[1].sender = "user"
    /\ messages[2].text = WhyReply /\ messages[2].sender = "bot"

\* Every string an error of the provider call can carry.
ErrorTexts ==
    UNION {{sendMessage(p, o, <<>>).err.message, sendMessage(p, o, <<>>).err.type} :
              p \in Configs, o \in HttpOutcomes \ {"ok_text"}}

\* C17: when the provider call of a chat request fails, the message appended
\* is the fixed apology, and no message of the list ever carries the error's
\* message or type.
C17_Apology ==
    [][/\ FailedChatStep
             => messages' = Append(messages, Message(sendLen + 2, Apology, "bot"))
       /\ \A i \in DOMAIN messages' :
             Range(messages'[i].text) \cap ErrorTexts = {}]_vars

\* After the greeting, a question has been answered with the apology.
C17_Witness ==
    /\ Len(messages) = 3 /\ pc = "idle" /\ ~isTyping
    /\ messages[1].text = Greeting(chatStory.title)
    /\ messages[2].sender = "user"
    /\ messages[3] = Message(3, Apology, "bot")

\* C18 as stated: a failed dispatch yields the reply the no-config path gives
\* for the same message and story.
C18_SameAsNoConfig ==
    [][/\ NoConfigSend
             => LastText(messages') = generateFallbackResponse(input, chatStory.title)
       /\ FailedChatStep
             => LastText(messages')
                   = generateFallbackResponse(sendInput, chatStory.title)]_vars

\* C18, amended: with no configuration the reply is the canned reply the
\* message's keywords select; after a failed dispatch the reply is the fixed
\* apology, whatever the message, and not the canned reply of that message.
C18_CannedOrApology ==
    [][/\ NoConfigSend
             => LastText(messages') = generateFallbackResponse(input, chatStory.title)
       /\ FailedChatStep
             => /\ LastText(messages') = Apology
                /\ LastText(messages')
                      # generateFallbackResponse(sendInput, chatStory.title)]_vars

\* "why does this matter", sent with a provider configured whose call failed,
\* has the apology as its reply.
C18_Witness ==
    /\ Len(messages) = 2 /\ pc = "idle"
    /\ messages[1].text = WhyMessage /\ sendInput = WhyMessage
    /\ messages[2].text = Apology

----------------------------------------------------------------------------
(* The image cache, checked under CacheSpec *)

\* The lookups issued for a keyword string.
LookupsFor(calls, k) == Cardinality({n \in DOMAIN calls : calls[n] = k})

----------------------------------------------------------------------------
(* The order of the steps of one flow invocation, checked under Spec *)

\* C20: within one flow invocation the prompt is built and the provider
\* dispatched first; while the dispatch is out nothing has been parsed and no
\* image resolution has started; the flow goes past its await only when the
\* dispatch has returned; and records are held and image resolutions started
\* only after the dispatch returned a text that parsed into an array.
C20_StepOrder ==
    /\ pc = "fetching"
          => /\ kind # "none" /\ netCalls = 1
             /\ fetchResponse = NoResponse /\ dispatchResult = NotDispatched
             /\ parsed = <<>> /\ slots = <<>> /\ flowResult = NoResult
    /\ (pc \in {"dispatched", "fanout", "settled"} /\ IssuesFetch(config))
          => fetchResponse # NoResponse
    /\ pc = "dispatched" => (parsed = <<>> /\ slots = <<>>)
    /\ (parsed # <<>> \/ slots # <<>> \/ pc = "fanout")
          => /\ GotArray
             /\ pc \in {"fanout", "settled"}
             /\ fetchResponse.outcome = "ok_text"
    /\ slots # <<>> => (version = "v2" /\ Len(slots) = RecordCount)

\* Two image resolutions are out, after a dispatch that returned a text that
\* parsed into two records.
C20_Witness ==
    /\ pc = "fanout" /\ Len(parsed) = 2 /\ Len(slots) = 2
    /\ slots[1].st = "pending" /\ slots[2].st = "pending"
    /\ fetchResponse.outcome = "ok_text" /\ dispatchResult.ok /\ netCalls = 1

----------------------------------------------------------------------------
(* The generateMockChunks harness: two stories, decorated by one revision *)

\* The stories handed to generateMockChunks: the hand-authored ones of either
\* revision and one generated story whose record carried no title.
MockInputs ==
    ClickableStories \cup {[generateMockStories("v2")[1] EXCEPT !.title = None]}

MockInit ==
    /\ FlowPageInit /\ ParseIdle /\ ChatIdle /\ CacheIdle /\ ClickIdle /\ FormIdle
    /\ mIn \in [a : MockInputs, b : MockInputs, ver : {"v1", "v2"}]
    /\ mOut = MOutIdle

ApplyMock ==
    /\ ~mOut.done
    /\ mOut' = [done |-> TRUE,
                ra |-> generateMockChunks(mIn.ver, mIn.a),
                rb |-> generateMockChunks(mIn.ver, mIn.b)]
    /\ UNCHANGED <<mIn, flowVars, pageVars, parseVars, chatVars, cacheVars,
                   clickVars, formVars>>

MockNext == ApplyMock

MockSpec == MockInit /\ [][MockNext]_vars

----------------------------------------------------------------------------
(* C21 *)

\* The roles core-concept, historical-context, expert-insight,
\* real-world-application, deep-dive by the titles the code gives them.
RoleTitles ==
    <<"Key Insight #1", "Historical Context", "Expert Perspective",
      "Real-World Application", "Deep Dive">>

FiveInOrder(r) ==
    /\ Len(r) = 5
    /\ \A i \in 1..5 : r[i].id = Some(i) /\ r[i].title = Some(RoleTitles[i])

\* Chunk by chunk, the two results agree in every field but content and
\* image, and agree in content when the two stories have the same title.
SameButTitle(ra, rb) ==
    /\ Len(ra) = Len(rb)
    /\ \A i \in DOMAIN ra :
          /\ ra[i].id = rb[i].id /\ ra[i].title = rb[i].title
          /\ ra[i].imageKeywords = rb[i].imageKeywords
          /\ mIn.a.title = mIn.b.title => ra[i].content = rb[i].content

\* C21 as stated: generateMockChunks returns 5 chunks with ids 1..5 in the
\* fixed order of roles, and the results for two stories differ only where
\* story.title is embedded.
C21_TitleOnly ==
    mOut.done =>
        /\ FiveInOrder(mOut.ra) /\ FiveInOrder(mOut.rb)
        /\ SameButTitle(mOut.ra, mOut.rb)
        /\ \A i \in 1..5 : mOut.ra[i].image = mOut.rb[i].image

\* C21 amended: generateMockChunks returns 5 chunks with ids 1..5 in the
\* fixed order of roles; the results for two stories differ only where
\* story.title is embedded and, in the revision that gives every chunk the
\* story's image, in the image, which is the story's.
C21_TitleAndStoryImage ==
    mOut.done =>
        /\ FiveInOrder(mOut.ra) /\ FiveInOrder(mOut.rb)
        /\ SameButTitle(mOut.ra, mOut.rb)
        /\ \A i \in 1..5 :
              IF mIn.ver = "v1"
                THEN mOut.ra[i].image = mIn.a.image /\ mOut.rb[i].image = mIn.b.image
                ELSE mOut.ra[i].image = mOut.rb[i].image

\* two stories with different titles and images went through the newer
\* revision
C21_Witness ==
    /\ mOut.done /\ mIn.ver = "v2"
    /\ mIn.a.title # mIn.b.title /\ mIn.a.image # mIn.b.image
    /\ mOut.ra # mOut.rb

----------------------------------------------------------------------------
(* C22 *)

\* The text of a response that is a fenced block: three back-ticks, a
\* language tag up to the end of the line, the body, a line break and three
\* back-ticks.
IsFenced(text) ==
    LET t == Trim(text)
    IN  /\ StartsWith(t, Ticks) /\ EndsWith(t, <<NL>> \o Ticks)
        /\ \E i \in 4..(Len(t) - 4) : t[i] = NL

FirstBreak(t) == CHOOSE i \in 1..Len(t) : t[i] = NL /\ \A j \in 1..(i - 1) : t[j] # NL
FenceTag(text) == LET t == Trim(text) IN SubSeq(t, 4, FirstBreak(t) - 1)
FenceBody(text) == LET t == Trim(text) IN SubSeq(t, FirstBreak(t) + 1, Len(t) - 4)

\* The records of the array inside the fence.
FencedRecords(text) ==
    LET v == JSONparse(FenceBody(text))
    IN  [i \in 1..Len(v.val.items) |-> ObjOf(v.val.items[i])]

\* generateStoriesFromHistory has settled after the provider returned a
\* fenced JSON array.
FencedArrayReturned ==
    /\ pc = "settled" /\ kind = "stories" /\ dispatchResult.ok
    /\ IsFenced(dispatchResult.text)
    /\ JSONparse(FenceBody(dispatchResult.text)).ok
    /\ JSONparse(FenceBody(dispatchResult.text)).val.t = "array"

ResolvedOrFallback(keywords) ==
    {ResolvedPhotoUrl(keywords), getFallbackImage(keywords)}

\* C22 as stated: when the provider returns a fenced JSON array of k story
\* records, the flow returns k Stories whose id, title, description and
\* relatedUrls are the record's and whose image is the resolved-or-fallback
\* URL for the record's imageKeywords.
C22_RecordFields ==
    FencedArrayReturned =>
        LET recs == FencedRecords(dispatchResult.text)
            es == flowResult.entities
        IN  /\ flowResult.ok /\ Len(es) = Len(recs)
            /\ \A i \in 1..Len(recs) :
                  /\ es[i].id = recs[i].id /\ es[i].title = recs[i].title
                  /\ es[i].description = recs[i].description
                  /\ Some(es[i].relatedUrls) = recs[i].relatedUrls
                  /\ es[i].image \in ResolvedOrFallback(recs[i].imageKeywords)

\* C22, amended: when the provider returns a JSON array of k story records in
\* a fence that is untagged or tagged json, the flow returns k Stories whose
\* id, title and description are the record's, whose relatedUrls are the
\* record's or empty when it has none, and whose image is the
\* resolved-or-fallback URL for the record's imageKeywords or, when it has
\* none, for its legacy image term or else its title; the older revision
\* sets image to the static URL of the record's image term and index.
C22_RecordFieldsOrDefaults ==
    (FencedArrayReturned /\ FenceTag(dispatchResult.text) \in {<<>>, JsonTag}) =>
        LET recs == FencedRecords(dispatchResult.text)
            es == flowResult.entities
        IN  /\ flowResult.ok /\ Len(es) = Len(recs)
            /\ \A i \in 1..Len(recs) :
                  /\ es[i].id = recs[i].id /\ es[i].title = recs[i].title
                  /\ es[i].description = recs[i].description
                  /\ es[i].relatedUrls =
                        (IF recs[i].relatedUrls = None THEN <<>>
                         ELSE recs[i].relatedUrls[1])
                  /\ IF version = "v1"
                       THEN es[i].image = getUnsplashImage(recs[i].image, i - 1)
                     ELSE IF recs[i].imageKeywords # None
                       THEN es[i].image \in ResolvedOrFallback(recs[i].imageKeywords)
                     ELSE es[i].image \in ResolvedOrFallback(DefaultKeywords(recs[i]))

\* The newer revision has returned two stories for a json-fenced array of two
\* records, one image looked up and one fallen back on.
C22_Witness ==
    /\ FencedArrayReturned /\ version = "v2"
    /\ FenceTag(dispatchResult.text) = JsonTag
    /\ flowResult.ok /\ Len(flowResult.entities) = 2
    /\ flowResult.entities[1].relatedUrls # <<>>
    /\ flowResult.entities[1].image = ResolvedPhotoUrl(Some("kw1"))
    /\ flowResult.entities[2].image = getFallbackImage(Some("kw0"))

----------------------------------------------------------------------------
(* C23 *)

\* C23: a user message that is in the message list is in the message list of
\* the next state, whatever the event: the greeting timer, a further send or
\* the arrival of the bot reply.
C23_UserMessageStays ==
    [][\A i \in DOMAIN messages :
          messages[i].sender = "user"
              => \E j \in DOMAIN messages' : messages'[j] = messages[i]]_vars

----------------------------------------------------------------------------
(* The stored provider configuration *)

\* DEFAULT_MODELS of @/types: one model identifier per provider.  The table
\* itself is not part of the sources at hand; only that the identifier is
\* looked up by provider matters here, so each provider gets an identifier
\* of its own.
DEFAULT_MODELS ==
    [p \in Providers |->
        CASE p = "openai" -> "default model of openai"
          [] p = "gemini" -> "default model of gemini"
          [] OTHER -> "default model of anthropic"]

\* a configuration that keeps the model of one provider whatever is selected
LLMConfigFirstModel(p, key) ==
    [provider |-> p, apiKey |-> key, model |-> DEFAULT_MODELS["gemini"]]

\* SettingsPage 47-51
LLMConfig(p, key) == [provider |-> p, apiKey |-> key, model |-> DEFAULT_MODELS[p]]

----------------------------------------------------------------------------
(* StoriesPage with overlapping chunk generations: part_000 77-103.  The     *)
(* handler has no guard of its own; the loading overlay (166-171) covers the *)
(* cards for the pointer only, and "Start Next Story" (199-209) stays a      *)
(* focusable button.                                                         *)

\* The most handleStoryClick invocations suspended at one time.
MaxInFlight == 2

\* The array of chunk records a generation decodes.
ChunkBatch == PrefixArray(3)

\* What generateChunksFromStory(s, config) settles with: the chunks built
\* from the decoded array for story s (every lookup of the newer revision
\* ending the same way), or the error the flow rethrows.
GenerationOutcomes(ver, s) ==
    {Returned(IF ver = "v1"
                THEN MapV1("chunks", [i \in DOMAIN ChunkBatch |-> ObjOf(ChunkBatch[i])], s)
                ELSE [i \in DOMAIN ChunkBatch |->
                        EntityV2("chunks", ObjOf(ChunkBatch[i]), s,
                                 getImageForKeywords(
                                     KeywordsV2("chunks", ObjOf(ChunkBatch[i]), s),
                                     l).url)]) : l \in Lookups}
    \cup {FlowCatch("chunks", s, Err("SyntaxError", "Unexpected token"))}

Request(s, st, result) == [story |-> s, st |-> st, result |-> result]

RemoveAt(q, i) == SubSeq(q, 1, i - 1) \o SubSeq(q, i + 1, Len(q))

\* a page that stores the story it shows as selected
StoreCurrentSelected(s, chunks) == [story |-> selectedStory, chunks |-> chunks]

\* part_000 94-95: setCurrentStory(story); setCurrentChunks(chunks)
StoreCurrent(s, chunks) == [story |-> s, chunks |-> chunks]

\* handleStoryClick up to its await (77-88), or to its end when no
\* configuration is stored (89-96, 100-102).
StoryClick(s) ==
    /\ location = "/stories"
    /\ s \in Range(storedStories) \cap ClickableStories
    /\ selectedStory' = s /\ pageError' = ""
    /\ IF apiConfig = None
         THEN /\ storedChunks' = StoreCurrent(s, generateMockChunks(version, s))
              /\ location' = "/chunks"
              /\ busy' = FALSE
              /\ UNCHANGED inflight
         ELSE /\ Len(inflight) < MaxInFlight
              /\ inflight' = Append(inflight, Request(s, "pending", NoResult))
              /\ busy' = TRUE
              /\ UNCHANGED <<storedChunks, location>>
    /\ UNCHANGED <<flowVars, storedStories, hasStarted, parseVars, chatVars,
                   cacheVars, mockVars, formVars>>

\* The generation of invocation i settles.
ChunksSettle(i, outcome) ==
    /\ i \in DOMAIN inflight /\ inflight[i].st = "pending"
    /\ outcome \in GenerationOutcomes(version, inflight[i].story)
    /\ inflight' = [inflight EXCEPT ![i] = Request(@.story, "settled", outcome)]
    /\ UNCHANGED <<flowVars, pageVars, selectedStory, parseVars, chatVars,
                   cacheVars, mockVars, formVars>>

\* Invocation i resumes after its await: 94-96 or the catch block 97-99,
\* then finally (100-102).
StoryClickResume(i) ==
    /\ i \in DOMAIN inflight /\ inflight[i].st = "settled"
    /\ inflight' = RemoveAt(inflight, i)
    /\ IF inflight[i].result.ok
         THEN /\ storedChunks' = StoreCurrent(inflight[i].story,
                                              inflight[i].result.entities)
              /\ location' = "/chunks"
              /\ UNCHANGED <<pageError, selectedStory>>
         ELSE /\ pageError' = inflight[i].result.err.message
              /\ selectedStory' = NoStory
              /\ UNCHANGED <<storedChunks, location>>
    /\ busy' = FALSE
    /\ UNCHANGED <<flowVars, storedStories, hasStarted, parseVars, chatVars,
                   cacheVars, mockVars, formVars>>

\* StoriesPage mounted over stored stories (63-69), with or without a stored
\* configuration.
ClickInit ==
    /\ pc = "idle" /\ kind = "none" /\ version \in {"v1", "v2"} /\ config = "none"
    /\ story = NoStory /\ netCalls = 0 /\ fetchResponse = NoResponse
    /\ dispatchResult = NotDispatched
    /\ parsed = <<>> /\ slots = <<>> /\ flowResult = NoResult
    /\ storedStories = generateMockStories(version)
    /\ storedChunks = [story |-> NoStory, chunks |-> <<>>]
    /\ hasStarted = TRUE
    /\ pageError = "" /\ busy = FALSE /\ location = "/stories"
    /\ ParseIdle /\ ChatIdle /\ CacheIdle /\ MockIdle /\ ClickIdle
    /\ urls = <<>> /\ browsingHistory = <<>> /\ urlInput = <<>>
    /\ formProvider = "gemini" /\ apiKey = <<>> /\ lastCall = "edit"
    /\ apiConfig \in {None, Some([provider |-> "gemini", apiKey |-> <<"k">>,
                                  model |-> "gemini-1.5-flash"])}

ClickNext ==
    \/ \E s \in ClickableStories : StoryClick(s)
    \/ \E i \in DOMAIN inflight :
          \E outcome \in GenerationOutcomes(version, inflight[i].story) :
              ChunksSettle(i, outcome)
    \/ \E i \in DOMAIN inflight : StoryClickResume(i)

ClickSpec == ClickInit /\ [][ClickNext]_vars

----------------------------------------------------------------------------
(* C24 *)

\* The chunk lists a generation for story s can produce.
ChunksFor(s) ==
    {generateMockChunks(ver, s) : ver \in {"v1", "v2"}}
    \cup {o.entities : o \in {g \in GenerationOutcomes("v1", s)
                                      \cup GenerationOutcomes("v2", s) : g.ok}}

StoredPair ==
    storedChunks.story = NoStory \/ storedChunks.chunks \in ChunksFor(storedChunks.story)

\* a step in which an invocation whose generation failed has resumed
FailedResume ==
    \E i \in DOMAIN inflight :
        /\ inflight[i].st = "settled" /\ ~inflight[i].result.ok
        /\ inflight' = RemoveAt(inflight, i)

\* C24: whatever the order in which overlapping generations settle, the
\* stored current chunks are chunks generated for the stored current story,
\* and the resumption of a failed generation leaves both stored values and
\* the route as they were.
C24_StoredTogether ==
    [][/\ storedChunks' # storedChunks => StoredPair'
       /\ FailedResume => storedChunks' = storedChunks /\ location' = location]_vars

\* The generation clicked second has succeeded and is stored while the one
\* clicked first, for another story, has failed and not yet resumed.
C24_Witness ==
    /\ Len(inflight) = 1 /\ inflight[1].st = "settled" /\ ~inflight[1].result.ok
    /\ storedChunks.story \notin {NoStory, inflight[1].story}
    /\ selectedStory = storedChunks.story
    /\ location = "/chunks"

----------------------------------------------------------------------------
(* C25 *)

\* a step in which handleSend has accepted a send: a user message is appended
AcceptedSend ==
    /\ Len(messages') > Len(messages)
    /\ messages'[Len(messages) + 1].sender = "user"

\* a step in which the chat request that was out has come back to the page
ChatRequestOver == pc # "idle" /\ kind = "chat" /\ pc' = "idle"

\* C25: a send is accepted only when no chat request is out, isTyping is
\* false, the input is not blank and a story is loaded; an accepted send
\* appends one user message (and at once the canned reply when no
\* configuration is stored), the end of the request appends one bot
\* message, and apart from the greeting timer nothing else touches the list.
C25_OneRequestOneReply ==
    [][/\ AcceptedSend =>
             /\ pc = "idle" /\ ~isTyping
             /\ Trim(input) # <<>> /\ chatStory # NoStory
             /\ messages'[Len(messages) + 1].text = input
             /\ SubSeq(messages', 1, Len(messages)) = messages
             /\ IF pc' = "idle"
                  THEN /\ Len(messages') = Len(messages) + 2
                       /\ messages'[Len(messages) + 2].sender = "bot"
                       /\ ~isTyping'
                  ELSE /\ Len(messages') = Len(messages) + 1
                       /\ isTyping'
       /\ ChatRequestOver =>
             /\ Len(messages') = Len(messages) + 1
             /\ SubSeq(messages', 1, Len(messages)) = messages
             /\ messages'[Len(messages')].sender = "bot"
       /\ (messages' # messages /\ chatPhase' = chatPhase) =>
             AcceptedSend \/ ChatRequestOver]_vars

\* After the greeting, a send with a configuration stored was accepted and
\* the provider's reply has been appended behind the user's message.
C25_Witness ==
    /\ chatPhase = "ready" /\ pc = "idle" /\ ~isTyping
    /\ Len(messages) = 3
    /\ messages[1].sender = "bot" /\ messages[2].sender = "user"
    /\ messages[3].sender = "bot"
    /\ messages[3].text \notin {Apology}
    /\ messages[3].text # generateFallbackResponse(messages[2].text, chatStory.title)

----------------------------------------------------------------------------
(* C26 *)

\* a step in which the page resumes after a story generation that failed
FailedStoriesStep ==
    pc = "settled" /\ kind = "stories" /\ ~flowResult.ok /\ pc' = "idle"

\* a step of a story generation that writes the stories or the flag, or
\* leaves for the stories page
StoriesWritten ==
    /\ kind = "stories" \/ kind' = "stories"
    /\ \/ storedStories' # storedStories
       \/ hasStarted' # hasStarted
       \/ location' # location

----------------------------------------------------------------------------
(* C27 *)

\* StoriesPage is mounted and one of its generations has not settled.
ChunksInFlight ==
    location = "/stories" /\ \E i \in DOMAIN inflight : inflight[i].st = "pending"

\* C27, the part a finite run refutes: in every state in which a page's
\* request is in flight the page's busy flag is true (isGenerating and
\* isGeneratingChunks for a generation flow, isTyping for a chat request).
C27_BusyWhileInFlight ==
    /\ (pc = "fetching" /\ kind \in {"stories", "chunks"}) => busy
    /\ (pc = "fetching" /\ kind = "chat") => isTyping
    /\ ChunksInFlight => busy

----------------------------------------------------------------------------
(* The forms of SettingsPage (11-130) and AddHistoryPage (9-87): the URL     *)
(* list, the provider configuration and the generate button                  *)

Http == <<"h", "t", "t", "p">>
UrlA == Http \o <<":", "a">>
UrlB == Http \o <<":", "b">>

\* Browsing histories found in storage on mount: duplicate-free.
SavedHistories == {<<>>, <<UrlA>>, <<UrlB, UrlA>>}

\* Values typed or pasted into the URL field: blanks, one URL, two URLs
\* padded, comma-separated and one of them repeated on a line of its own,
\* text that is no URL, and a mix of such text and a URL.
UrlInputs ==
    {<<" ", " ">>, UrlA,
     <<" ">> \o UrlA \o <<" ", ",">> \o UrlB \o <<NL>> \o UrlB,
     <<"f", "t", "p", ":", "c">>,
     <<"f", "t", "p", ":", "c", ",", " ">> \o UrlB \o <<NL>>}

\* Values typed into the API key field: blanks, a key with blanks around it.
KeyInputs == {<<" ">>, <<" ", "k", " ">>}

IsSeparator(c) == c \in {NL, ","}

\* urlInput.split(/[\n,]/)
RECURSIVE Split(_)
Split(s) ==
    IF \A i \in DOMAIN s : ~IsSeparator(s[i]) THEN <<s>>
    ELSE LET i == CHOOSE k \in DOMAIN s :
                      IsSeparator(s[k]) /\ \A j \in 1..(k - 1) : ~IsSeparator(s[j])
         IN  <<SubSeq(s, 1, i - 1)>> \o Split(SubSeq(s, i + 1, Len(s)))

\* a filter that lets every non-empty entry through
IsUrlAnything(u) == u # <<>>

\* url && url.startsWith('http')
IsUrl(u) == u # <<>> /\ StartsWith(u, Http)

\* .map(url => url.trim()).filter(...) over the split input (AddHistoryPage
\* 28-31, SettingsPage 65-68)
NewUrls(text) ==
    LET parts == Split(text)
    IN  SelectSeq([i \in DOMAIN parts |-> Trim(parts[i])], IsUrl)

\* [...new Set(list)]: the first occurrence of every element, in order
RECURSIVE Dedup(_)
Dedup(list) ==
    IF list = <<>> THEN <<>>
    ELSE LET front == Dedup(DropEnd(list, 1))
             last == list[Len(list)]
         IN  IF last \in Range(front) THEN front ELSE Append(front, last)

ErrNoValidUrl == "Please enter valid URLs (starting with http:// or https://)"
ErrNoKey == "Please enter an API key"
ErrNoConfig == "Please configure your API key first"
ErrNoUrls == "Please add some URLs first"

FormMounted == location \in {"/settings", "/add-history"}

\* onChange of the URL field (AddHistoryPage 140, SettingsPage 248)
SetUrlInput(text) ==
    /\ FormMounted /\ urlInput # text
    /\ urlInput' = text /\ lastCall' = "edit"
    /\ UNCHANGED <<urls, browsingHistory, formProvider, apiKey, apiConfig,
                   flowVars, pageVars, parseVars, chatVars, cacheVars, mockVars,
                   clickVars>>

\* handleAddUrl (AddHistoryPage 24-43, SettingsPage 61-80)
handleAddUrl ==
    /\ FormMounted
    /\ lastCall' = "add"
    /\ IF Trim(urlInput) = <<>>
         THEN UNCHANGED <<urls, browsingHistory, urlInput, pageError>>
       ELSE IF NewUrls(urlInput) = <<>>
         THEN /\ pageError' = ErrNoValidUrl
              /\ UNCHANGED <<urls, browsingHistory, urlInput>>
       ELSE /\ urls' = Dedup(urls \o NewUrls(urlInput))
            /\ browsingHistory' = Dedup(urls \o NewUrls(urlInput))
            /\ urlInput' = <<>>
            /\ pageError' = ""
    /\ UNCHANGED <<formProvider, apiKey, apiConfig, flowVars, storedStories,
                   storedChunks, hasStarted, busy, location, parseVars, chatVars,
                   cacheVars, mockVars, clickVars>>

\* urls.filter(url => url !== urlToRemove) (AddHistoryPage 47, SettingsPage 84)
Without(list, urlToRemove) ==
    LET Keep(u) == u # urlToRemove IN SelectSeq(list, Keep)

\* handleRemoveUrl (AddHistoryPage 46-50, SettingsPage 83-87); the button is
\* rendered once per listed URL.
handleRemoveUrl(urlToRemove) ==
    /\ FormMounted /\ urlToRemove \in Range(urls)
    /\ urls' = Without(urls, urlToRemove)
    /\ browsingHistory' = Without(urls, urlToRemove)
    /\ lastCall' = "edit"
    /\ UNCHANGED <<urlInput, formProvider, apiKey, apiConfig, flowVars, pageVars,
                   parseVars, chatVars, cacheVars, mockVars, clickVars>>

\* handleClearUrls (AddHistoryPage 53-56, SettingsPage 90-93); the button is
\* rendered while the list is not empty.
handleClearUrls ==
    /\ FormMounted /\ urls # <<>>
    /\ urls' = <<>> /\ browsingHistory' = <<>>
    /\ lastCall' = "edit"
    /\ UNCHANGED <<urlInput, formProvider, apiKey, apiConfig, flowVars, pageVars,
                   parseVars, chatVars, cacheVars, mockVars, clickVars>>

\* The provider buttons (SettingsPage 176-188)
SetProvider(p) ==
    /\ location = "/settings" /\ formProvider # p
    /\ formProvider' = p /\ lastCall' = "edit"
    /\ UNCHANGED <<urls, browsingHistory, urlInput, apiKey, apiConfig, flowVars,
                   pageVars, parseVars, chatVars, cacheVars, mockVars, clickVars>>

\* onChange of the key field (SettingsPage 201)
SetApiKey(text) ==
    /\ location = "/settings" /\ apiKey # text
    /\ apiKey' = text /\ lastCall' = "edit"
    /\ UNCHANGED <<urls, browsingHistory, urlInput, formProvider, apiConfig,
                   flowVars, pageVars, parseVars, chatVars, cacheVars, mockVars,
                   clickVars>>

\* handleSaveConfig (SettingsPage 41-58)
handleSaveConfig ==
    /\ location = "/settings"
    /\ lastCall' = "save"
    /\ IF Trim(apiKey) = <<>>
         THEN /\ pageError' = ErrNoKey
              /\ UNCHANGED apiConfig
         ELSE /\ apiConfig' = Some(LLMConfig(formProvider, Trim(apiKey)))
              /\ pageError' = ""
    /\ UNCHANGED <<urls, browsingHistory, urlInput, formProvider, apiKey,
                   flowVars, storedStories, storedChunks, hasStarted, busy,
                   location, parseVars, chatVars, cacheVars, mockVars, clickVars>>

\* a handler that does not look at the URL list
GenerateErrorNoUrlCheck(page, cfg, list) ==
    IF page = "/settings" /\ cfg = None THEN ErrNoConfig ELSE ""

\* The early returns of handleGenerateStories: SettingsPage 99-107 (no
\* configuration, then no URLs), AddHistoryPage 60-63 (no URLs).  "" when
\* the handler goes on.
GenerateError(page, cfg, list) ==
    IF page = "/settings" /\ cfg = None THEN ErrNoConfig
    ELSE IF list = <<>> THEN ErrNoUrls
    ELSE ""

\* handleGenerateStories (SettingsPage 96-122, AddHistoryPage 59-79) up to
\* its await.  The button is disabled while isGenerating and while the list
\* is empty (294, 190); the handler is modelled as callable on an empty
\* list too, which is the case its own early return covers.  SettingsPage
\* hands the stored configuration to the flow; cfg is the provider of the
\* LLMService the flow of AddHistoryPage builds for itself.
GenerateStoriesClicked(ver, cfg) ==
    /\ FormMounted /\ pc = "idle" /\ ~busy
    /\ location = "/settings" /\ apiConfig # None => cfg = apiConfig[1].provider
    /\ lastCall' = "generate"
    /\ IF GenerateError(location, apiConfig, urls) # ""
         THEN /\ pageError' = GenerateError(location, apiConfig, urls)
              /\ UNCHANGED <<flowVars, busy>>
         ELSE /\ busy' = TRUE /\ pageError' = ""
              /\ StartFlow("stories", ver, cfg, NoStory)
    /\ UNCHANGED <<urls, browsingHistory, urlInput, formProvider, apiKey,
                   apiConfig, storedStories, storedChunks, hasStarted, location,
                   parseVars, chatVars, cacheVars, mockVars, clickVars>>

\* The answers of the provider in the runs of the forms.
FormCandidates == {<<Wrap([fenced |-> FALSE, tag |-> <<>>, nl |-> FALSE, pad |-> FALSE],
                         ArrayText(PrefixArray(1)))>>}

\* A form after its mount effect (SettingsPage 29-38, AddHistoryPage 18-21):
\* the saved URLs are in the list, the saved provider and key in the fields.
FormInit ==
    /\ pc = "idle" /\ kind = "none" /\ version = "v2" /\ config = "none"
    /\ story = NoStory /\ netCalls = 0 /\ fetchResponse = NoResponse
    /\ dispatchResult = NotDispatched
    /\ parsed = <<>> /\ slots = <<>> /\ flowResult = NoResult
    /\ storedStories = <<>> /\ storedChunks = [story |-> NoStory, chunks |-> <<>>]
    /\ hasStarted = FALSE
    /\ pageError = "" /\ busy = FALSE
    /\ location \in {"/settings", "/add-history"}
    /\ ParseIdle /\ ChatIdle /\ CacheIdle /\ MockIdle /\ ClickIdle
    /\ browsingHistory \in SavedHistories /\ urls = browsingHistory
    /\ urlInput = <<>> /\ lastCall = "edit"
    /\ apiConfig \in {None} \cup {Some(LLMConfig(p, <<"k">>)) : p \in Providers}
    /\ formProvider = (IF apiConfig = None \/ location # "/settings" THEN "gemini"
                       ELSE apiConfig[1].provider)
    /\ apiKey = (IF apiConfig = None \/ location # "/settings" THEN <<>>
                 ELSE apiConfig[1].apiKey)

FormNext ==
    \/ \E text \in UrlInputs : SetUrlInput(text)
    \/ handleAddUrl
    \/ \E u \in {UrlA, UrlB} : handleRemoveUrl(u)
    \/ handleClearUrls
    \/ \E p \in Providers : SetProvider(p)
    \/ \E text \in KeyInputs : SetApiKey(text)
    \/ handleSaveConfig
    \/ \E cfg \in Providers : GenerateStoriesClicked("v2", cfg)
    \/ \E outcome \in {"net_fail", "ok_text"} :
          \E candidates \in IF outcome = "ok_text" THEN FormCandidates ELSE {<<>>} :
              HttpRespond(outcome, candidates)
    \/ ParseAndMap
    \/ \E lookup \in Lookups : LookupSettle(1, lookup)
    \/ Join
    \/ CallerContinue

FormSpec == FormInit /\ [][FormNext]_vars

----------------------------------------------------------------------------
(* C28 *)

NoDuplicates(list) ==
    \A i, j \in DOMAIN list : i # j => list[i] # list[j]

\* u has no white space at either end, is not empty and starts with 'http'
TrimmedHttp(u) ==
    /\ u # <<>> /\ u[1] \notin WS /\ u[Len(u)] \notin WS
    /\ Len(u) >= 4 /\ SubSeq(u, 1, 4) = <<"h", "t", "t", "p">>

\* one of the comma- or line-separated pieces of the text is, trimmed, a URL
HasValidUrl(text) == \E k \in DOMAIN Split(text) : TrimmedHttp(Trim(Split(text)[k]))

\* a step of handleAddUrl
AddStep == lastCall' = "add" /\ UNCHANGED flowVars

\* What C28 says of every step: the list has no duplicates, what was added is
\* trimmed, non-empty and starts with 'http', and storage holds the list.
ListKept ==
    /\ NoDuplicates(urls')
    /\ \A k \in DOMAIN urls' : urls'[k] \notin Range(urls) => TrimmedHttp(urls'[k])
    /\ browsingHistory' = urls'

\* C28 as stated: ... and an add whose input contains no valid URL leaves
\* the list and the stored history unchanged and sets an error.
C28_InvalidAddSetsError ==
    [][/\ ListKept
       /\ (AddStep /\ ~HasValidUrl(urlInput)) =>
             /\ urls' = urls /\ browsingHistory' = browsingHistory
             /\ pageError' = ErrNoValidUrl]_vars

\* C28, amended: starting from a duplicate-free saved history, after every
\* handleAddUrl, handleRemoveUrl and handleClearUrls the list has no
\* duplicates, every entry added is trimmed, non-empty and starts with
\* 'http', and the stored history equals the list; an add whose input is not
\* blank but contains no valid URL leaves both unchanged and sets an error,
\* and an add whose input is blank leaves both, and the error, unchanged.
C28_NonBlankInvalidAddSetsError ==
    [][/\ ListKept
       /\ (AddStep /\ ~HasValidUrl(urlInput)) =>
             /\ urls' = urls /\ browsingHistory' = browsingHistory
             /\ IF Trim(urlInput) = <<>> THEN pageError' = pageError
                ELSE pageError' = ErrNoValidUrl]_vars

\* Two URLs were added in one go, and a later add of text that is no URL has
\* been refused: the error is set and list and storage still hold the two.
C28_Witness ==
    /\ lastCall = "add" /\ pageError = ErrNoValidUrl
    /\ urls = <<UrlA, UrlB>> /\ browsingHistory = urls
    /\ urlInput = <<"f", "t", "p", ":", "c">>

----------------------------------------------------------------------------
(* C29 *)

\* a step of handleGenerateStories taken with an empty URL list, or on
\* SettingsPage with no configuration stored
RefusedGenerateStep ==
    /\ lastCall' = "generate" /\ pc = "idle"
    /\ urls = <<>> \/ (location = "/settings" /\ apiConfig = None)

\* C29: handleGenerateStories called with an empty URL list, or on
\* SettingsPage with no configuration stored, issues no provider call, sets
\* an error and leaves isGenerating false and the stored stories and the
\* hasStarted flag as they were.
C29_NoCallWithoutInput ==
    [][RefusedGenerateStep =>
          /\ UNCHANGED flowVars
          /\ pageError' \in {ErrNoUrls, ErrNoConfig}
          /\ ~busy'
          /\ storedStories' = storedStories /\ hasStarted' = hasStarted]_vars

\* SettingsPage with URLs in the list and no configuration stored has
\* refused to generate.
C29_Witness ==
    /\ lastCall = "generate" /\ location = "/settings"
    /\ apiConfig = None /\ urls # <<>>
    /\ pageError = ErrNoConfig
    /\ pc = "idle" /\ netCalls = 0 /\ ~busy

----------------------------------------------------------------------------
(* C30 *)

\* a step of handleSaveConfig
SaveStep == lastCall' = "save" /\ UNCHANGED flowVars

\* C30: handleSaveConfig with a blank API key leaves the stored
\* configuration unchanged and sets an error; otherwise it stores the
\* selected provider, the trimmed key and that provider's default model; the
\* stored model is at all times the default model of the stored provider.
C30_ModelOfStoredProvider ==
    [][/\ SaveStep =>
             IF Trim(apiKey) = <<>>
               THEN apiConfig' = apiConfig /\ pageError' = ErrNoKey
               ELSE /\ apiConfig' # None
                    /\ apiConfig'[1].provider = formProvider
                    /\ apiConfig'[1].apiKey = Trim(apiKey)
                    /\ apiConfig'[1].model = DEFAULT_MODELS[formProvider]
       /\ apiConfig' # None =>
             apiConfig'[1].model = DEFAULT_MODELS[apiConfig'[1].provider]]_vars

\* A provider other than the one loaded on mount was selected and saved with
\* a key typed with blanks around it.
C30_Witness ==
    /\ lastCall = "save" /\ pageError = ""
    /\ apiConfig = Some([provider |-> "anthropic", apiKey |-> <<"k">>,
                         model |-> DEFAULT_MODELS["anthropic"]])
    /\ apiKey = <<" ", "k", " ">> /\ formProvider = "anthropic"

====
